---- MODULE Spec2Model ----
(***************************************************************************)
(* Session lifecycle and analysis reconciliation: the end-session and      *)
(* analyze request handlers running against the relational store, the      *)
(* qualitative-analysis provider and each other, together with the pure    *)
(* helpers they call (identity classification, transcript metrics,         *)
(* provider-response validation).                                          *)
(*                                                                         *)
(* Strings that the code inspects character by character (session ids,     *)
(* speakers, message texts) are sequences of one-character strings.        *)
(* Timestamps (new Date()) and console output are not modelled.            *)
(***************************************************************************)
EXTENDS Integers, Sequences, FiniteSets, Bags, TLC

(* JSON values of request bodies, tagged with their JavaScript type.  A   *)
(* property that is absent reads as Undefined.                            *)
Undefined == [type |-> "undefined"]
Null == [type |-> "null"]
Str(s) == [type |-> "string", val |-> s]
Num(n) == [type |-> "number", val |-> n]
Arr(a) == [type |-> "array", val |-> a]
Obj(o) == [type |-> "object", val |-> o]

IsString(v) == v.type = "string"
IsNumber(v) == v.type = "number"
IsArray(v)  == v.type = "array"

\* !v : undefined, null, 0 and '' are falsy; arrays and objects are truthy.
Falsy(v) ==
  \/ v.type = "undefined"
  \/ v.type = "null"
  \/ v.type = "number" /\ v.val = 0
  \/ v.type = "string" /\ v.val = <<>>

\* a || b
OrElse(a, b) == IF Falsy(a) THEN b ELSE a

-----------------------------------------------------------------------------
(* String helpers (String.prototype.startsWith / includes / trim / toLowerCase, *)
(* and the regular-expression word boundary \b).                                *)

StartsWith(s, p) == Len(s) >= Len(p) /\ SubSeq(s, 1, Len(p)) = p

Includes(s, p) == \E i \in 1..(Len(s) - Len(p) + 1) : SubSeq(s, i, i + Len(p) - 1) = p

UpperCase == <<"A","B","C","D","E","F","G","H","I","J","K","L","M",
               "N","O","P","Q","R","S","T","U","V","W","X","Y","Z">>
LowerCase == <<"a","b","c","d","e","f","g","h","i","j","k","l","m",
               "n","o","p","q","r","s","t","u","v","w","x","y","z">>
Digits == {"0","1","2","3","4","5","6","7","8","9"}

UpperSet == { UpperCase[i] : i \in 1..Len(UpperCase) }

LowerChar(c) ==
  IF c \in UpperSet
    THEN LowerCase[CHOOSE i \in 1..Len(UpperCase) : UpperCase[i] = c]
    ELSE c

toLowerCase(s) == [i \in 1..Len(s) |-> LowerChar(s[i])]

\* \w of a JavaScript regular expression: [A-Za-z0-9_].
WordChars == UpperSet \cup { LowerCase[i] : i \in 1..Len(LowerCase) } \cup Digits \cup {"_"}

IsWordChar(c) == c \in WordChars

IsSpace(c) == c = " "

\* \b just before position i of s (i in 1..Len(s)+1): exactly one of the
\* characters on either side is a word character.
WordBoundary(s, i) ==
  LET before == i > 1 /\ IsWordChar(s[i - 1])
      after  == i <= Len(s) /\ IsWordChar(s[i])
  IN  before # after

\* text.match(new RegExp(`\\b${w}\\b`, 'gi')).length on lower-cased text: the
\* number of places where the literal w stands between two word boundaries.
\* (No entry of the word lists can overlap another occurrence of itself, so
\* the count of matching places is the count of the regexp's global matches.)
MatchCount(text, w) ==
  Cardinality({ i \in 1..(Len(text) - Len(w) + 1) :
                  /\ text[i] = w[1]
                  /\ SubSeq(text, i, i + Len(w) - 1) = w
                  /\ WordBoundary(text, i)
                  /\ WordBoundary(text, i + Len(w)) })

RECURSIVE TrimLeft(_)
TrimLeft(s) == IF s # <<>> /\ IsSpace(Head(s)) THEN TrimLeft(Tail(s)) ELSE s

RECURSIVE TrimRight(_)
TrimRight(s) ==
  IF s # <<>> /\ IsSpace(s[Len(s)]) THEN TrimRight(SubSeq(s, 1, Len(s) - 1)) ELSE s

trim(s) == TrimRight(TrimLeft(s))

\* text.split(/\s+/).filter(word => word.length > 0).length: the number of
\* maximal runs of non-space characters.
WordCount(s) ==
  Cardinality({ i \in 1..Len(s) : ~IsSpace(s[i]) /\ (i = 1 \/ IsSpace(s[i - 1])) })

RECURSIVE SumSeq(_)
SumSeq(q) == IF q = <<>> THEN 0 ELSE Head(q) + SumSeq(Tail(q))

RECURSIVE Gcd(_, _)
Gcd(a, b) == IF b = 0 THEN a ELSE Gcd(b, a % b)

\* A JavaScript number that is a quotient of two naturals, in lowest terms
\* (equal records are equal numbers).
Ratio(n, d) == LET g == Gcd(n, d) IN [num |-> n \div g, den |-> d \div g]

-----------------------------------------------------------------------------
(* Session identity: src/unnamed/part_000 isDemoSession.                    *)

DemoPrefix == <<"d","e","m","o","-">>
TempPrefix == <<"t","e","m","p","-">>
DemoWord   == <<"d","e","m","o">>

\* sessionId is a JSON value (a string, or Undefined when not given);
\* status is a plain status string ("" when not given).
isDemoSession(sessionId, status) ==
  IF status = "demo" THEN TRUE
  ELSE IF IsString(sessionId) /\ StartsWith(sessionId.val, DemoPrefix) THEN TRUE
  ELSE IF IsString(sessionId) /\ StartsWith(sessionId.val, TempPrefix) THEN TRUE
  ELSE IF IsString(sessionId) /\ Includes(sessionId.val, DemoWord) THEN TRUE
  ELSE FALSE

-----------------------------------------------------------------------------
(* Display normalisation: src/unnamed/part_000 normalizeSessionStatus and   *)
(* normalizeScore.                                                          *)

\* A boolean argument.
Bool(b) == [type |-> "boolean", val |-> b]

\* Variant: a completed session shows as completed whatever hasAnalysis is.
normalizeSessionStatusIgnoringAnalysis(dbStatus, hasAnalysis) ==
  CASE dbStatus = "analyzed"   -> "completed"
    [] dbStatus = "completed"  -> "completed"
    [] dbStatus = "active"     -> "in_progress"
    [] dbStatus = "processing" -> "processing"
    [] dbStatus = "demo"       -> "demo"
    [] dbStatus = "archived"   -> "archived"
    [] OTHER                   -> "in_progress"

\* hasAnalysis is Bool(TRUE), Bool(FALSE) or Undefined (the optional argument
\* not given).
normalizeSessionStatus(dbStatus, hasAnalysis) ==
  CASE dbStatus = "analyzed"   -> "completed"
    [] dbStatus = "completed"  -> IF hasAnalysis = Bool(TRUE) THEN "completed" ELSE "processing"
    [] dbStatus = "active"     -> "in_progress"
    [] dbStatus = "processing" -> "processing"
    [] dbStatus = "demo"       -> "demo"
    [] dbStatus = "archived"   -> "archived"
    [] OTHER                   -> "in_progress"

(* A score is a JavaScript number, an IEEE 754 double.  A finite double     *)
(* that is not negative is kept as [m, e] with value m * 2^e, where m is    *)
(* the 53-bit significand written as a sequence of bits, first bit 1, most  *)
(* significant first (zero: the empty significand, e = 0), so that equal    *)
(* records are equal numbers.  Naturals wider than the significand are bit  *)
(* sequences of the same kind.  The scores of the model lie in 0..1000:     *)
(* the exponent never leaves the range of normal doubles.                   *)

SignificandBits == 53

NaN == [type |-> "number", nan |-> TRUE]

Double(m, e) == [type |-> "number", nan |-> FALSE, m |-> m, e |-> e]

PlusZero == Double(<<>>, 0)

RECURSIVE Binary(_)
Binary(n) == IF n = 0 THEN <<>> ELSE Binary(n \div 2) \o <<n % 2>>

Zeros(n) == <<>> \o [i \in 1..n |-> 0]

StripZeros(bits) ==
  IF \A i \in 1..Len(bits) : bits[i] = 0 THEN <<>>
  ELSE LET first == CHOOSE i \in 1..Len(bits) :
                      bits[i] = 1 /\ \A j \in 1..(i - 1) : bits[j] = 0
       IN  SubSeq(bits, first, Len(bits))

\* Arithmetic on wide naturals goes limb by limb: a limb is LimbBits bits.
\* (<<>> \o f is the sequence f with its elements computed once.)
LimbBits == 12

RECURSIVE Pow2(_)
Pow2(n) == IF n = 0 THEN 1 ELSE 2 * Pow2(n - 1)

LimbBase == Pow2(LimbBits)

ToLimbs(bits) ==
  LET padded == Zeros((LimbBits - (Len(bits) % LimbBits)) % LimbBits) \o bits
  IN  <<>> \o [j \in 1..(Len(padded) \div LimbBits) |->
                 SumSeq([i \in 1..LimbBits |->
                           padded[LimbBits * (j - 1) + i] * Pow2(LimbBits - i)])]

FromLimbs(limbs) ==
  StripZeros(<<>> \o [i \in 1..(LimbBits * Len(limbs)) |->
                        (limbs[(i - 1) \div LimbBits + 1]
                           \div Pow2(LimbBits - 1 - ((i - 1) % LimbBits))) % 2])

\* limbs * k + carry for a small natural k.
RECURSIVE TimesLimbs(_, _, _)
TimesLimbs(limbs, k, carry) ==
  IF limbs = <<>> THEN <<carry>>
  ELSE LET t == limbs[Len(limbs)] * k + carry
       IN  TimesLimbs(SubSeq(limbs, 1, Len(limbs) - 1), k, t \div LimbBase)
             \o <<t % LimbBase>>

Times(bits, k) == FromLimbs(TimesLimbs(ToLimbs(bits), k, 0))

\* Long division of (r, limbs) by a small natural k: quotient and remainder.
RECURSIVE OverLimbs(_, _, _)
OverLimbs(limbs, k, r) ==
  IF limbs = <<>> THEN [q |-> <<>>, r |-> r]
  ELSE LET t    == LimbBase * r + Head(limbs)
           rest == OverLimbs(Tail(limbs), k, t % k)
       IN  [q |-> <<t \div k>> \o rest.q, r |-> rest.r]

Over(bits, k) ==
  LET d == OverLimbs(ToLimbs(bits), k, 0) IN [q |-> FromLimbs(d.q), r |-> d.r]

\* bits + 1.
Successor(bits) ==
  IF \A i \in 1..Len(bits) : bits[i] = 1 THEN <<1>> \o Zeros(Len(bits))
  ELSE LET last == CHOOSE i \in 1..Len(bits) :
                     bits[i] = 0 /\ \A j \in (i + 1)..Len(bits) : bits[j] = 1
       IN  SubSeq(bits, 1, last - 1) \o <<1>> \o Zeros(Len(bits) - last)

\* The double nearest to (bits + fraction) * 2^e, ties to even, where bits
\* has more than SignificandBits bits and fraction is in [0, 1), zero
\* exactly when ~inexact.
RoundToNearest(bits, inexact, e) ==
  LET kept    == SubSeq(bits, 1, SignificandBits)
      dropped == SubSeq(bits, SignificandBits + 1, Len(bits))
      sticky  == inexact \/ \E i \in 2..Len(dropped) : dropped[i] = 1
      up      == dropped[1] = 1 /\ (sticky \/ kept[SignificandBits] = 1)
      m       == IF up THEN Successor(kept) ELSE kept
  IN  IF Len(m) > SignificandBits
        THEN Double(SubSeq(m, 1, SignificandBits), e + Len(dropped) + 1)
        ELSE Double(m, e + Len(dropped))

\* x * 10 and x / 10 in double arithmetic.
TimesTen(x) ==
  IF x.m = <<>> THEN x ELSE RoundToNearest(Times(x.m, 10), FALSE, x.e)

OverTen(x) ==
  IF x.m = <<>> THEN x
  ELSE LET d == Over(x.m \o Zeros(6), 10)
       IN  RoundToNearest(d.q, d.r # 0, x.e - 6)

\* The number that the decimal literal n/100 denotes (n a natural).
Hundredths(n) ==
  IF n = 0 THEN PlusZero
  ELSE LET d == Over(Binary(n) \o Zeros(64), 100)
       IN  RoundToNearest(d.q, d.r # 0, 0 - 64)

\* The double of a natural below 2^31.
FromNatural(n) ==
  IF n = 0 THEN PlusZero
  ELSE LET bits == Binary(n)
       IN  Double(bits \o Zeros(SignificandBits - Len(bits)), Len(bits) - SignificandBits)

\* A significand, or a remainder of a division by one, in limbs of one length.
Wide(bits) == ToLimbs(Zeros(SignificandBits + LimbBits - Len(bits)) \o bits)

\* a < b for limbs of one length.
LessLimbs(a, b) ==
  \E i \in 1..Len(a) : a[i] < b[i] /\ \A j \in 1..(i - 1) : a[j] = b[j]

\* a - b - borrow for limbs of one length, a >= b + borrow.
RECURSIVE MinusLimbs(_, _, _)
MinusLimbs(a, b, borrow) ==
  IF a = <<>> THEN <<>>
  ELSE LET t == a[Len(a)] - b[Len(b)] - borrow
       IN  MinusLimbs(SubSeq(a, 1, Len(a) - 1), SubSeq(b, 1, Len(b) - 1),
                      IF t < 0 THEN 1 ELSE 0)
             \o <<IF t < 0 THEN t + LimbBase ELSE t>>

\* The next n hexadecimal digits of rem / divisor after the point
\* (rem < divisor), and the remainder left; multiples[k] is k * divisor.
RECURSIVE HexDigits(_, _, _)
HexDigits(rem, multiples, n) ==
  IF n = 0 THEN [q |-> <<>>, r |-> rem]
  ELSE LET shifted == Tail(TimesLimbs(rem, 16, 0))
           digit   == Cardinality({ k \in 1..15 : ~LessLimbs(shifted, multiples[k]) })
           left    == IF digit = 0 THEN shifted
                      ELSE MinusLimbs(shifted, multiples[digit], 0)
           rest    == HexDigits(left, multiples, n - 1)
       IN  [q |-> <<digit>> \o rest.q, r |-> rest.r]

\* x / y in double arithmetic (y not zero): the quotient of the significands
\* to 56 binary places, rounded.
Quotient(x, y) ==
  IF x.m = <<>> THEN x
  ELSE LET divisor   == Wide(y.m)
           multiples == <<>> \o [k \in 1..15 |-> Tail(TimesLimbs(divisor, k, 0))]
           whole  == IF LessLimbs(Wide(x.m), divisor) THEN 0 ELSE 1
           first  == IF whole = 1 THEN MinusLimbs(Wide(x.m), divisor, 0) ELSE Wide(x.m)
           places == HexDigits(first, multiples, 14)
           bits   == <<whole>> \o [i \in 1..(4 * Len(places.q)) |->
                        (places.q[(i - 1) \div 4 + 1] \div Pow2(3 - ((i - 1) % 4))) % 2]
       IN  RoundToNearest(StripZeros(bits), \E i \in 1..Len(places.r) : places.r[i] # 0,
                          x.e - y.e - 4 * Len(places.q))

\* Math.round(x) for a double below 2^31: the nearest integer, halves up.
RECURSIVE NaturalOf(_)
NaturalOf(bits) ==
  IF bits = <<>> THEN 0 ELSE 2 * NaturalOf(SubSeq(bits, 1, Len(bits) - 1)) + bits[Len(bits)]

MathRound(x) ==
  IF x.m = <<>> THEN 0
  ELSE LET whole == SignificandBits + x.e
       IN  IF whole < 0 THEN 0
           ELSE IF whole >= SignificandBits THEN NaturalOf(x.m \o Zeros(x.e))
           ELSE NaturalOf(SubSeq(x.m, 1, whole)) + x.m[whole + 1]

\* score is Undefined, Null, NaN or a double; the scales are 10 or 100.
normalizeScore(score, fromScale, toScale) ==
  IF score \in {Undefined, Null, NaN} THEN PlusZero
  ELSE IF fromScale = toScale THEN score
  ELSE IF fromScale = 10 /\ toScale = 100 THEN TimesTen(score)
  ELSE IF fromScale = 100 /\ toScale = 10 THEN OverTen(score)
  ELSE score

-----------------------------------------------------------------------------
(* Transcript metrics: src/frontend/lib/analysis-utils.ts.                  *)
(* A transcript is a sequence of message records [speaker, message]; a      *)
(* record without the speaker field is a message that lacks the property.   *)

\* analysis-utils.ts countFillerWords: the fixed filler-phrase list, in order.
fillerWords ==
  << <<"u","m">>,
     <<"u","h">>,
     <<"e","r">>,
     <<"a","h">>,
     <<"l","i","k","e">>,
     <<"y","o","u"," ","k","n","o","w">>,
     <<"s","o","r","t"," ","o","f">>,
     <<"k","i","n","d"," ","o","f">>,
     <<"b","a","s","i","c","a","l","l","y">>,
     <<"a","c","t","u","a","l","l","y">>,
     <<"l","i","t","e","r","a","l","l","y">>,
     <<"t","o","t","a","l","l","y">>,
     <<"r","i","g","h","t","?">>,
     <<"o","k","a","y","?">>,
     <<"s","o">>,
     <<"w","e","l","l">>,
     <<"i"," ","m","e","a","n">>,
     <<"y","o","u"," ","s","e","e">>,
     <<"l","e","t"," ","m","e"," ","t","h","i","n","k">> >>

\* analysis-utils.ts calculateSentimentScore: the positive keyword list.
positiveWords ==
  << <<"g","r","e","a","t">>,
     <<"e","x","c","e","l","l","e","n","t">>,
     <<"g","o","o","d">>,
     <<"a","m","a","z","i","n","g">>,
     <<"w","o","n","d","e","r","f","u","l">>,
     <<"f","a","n","t","a","s","t","i","c">>,
     <<"p","e","r","f","e","c","t">>,
     <<"l","o","v","e">>,
     <<"l","i","k","e">>,
     <<"e","n","j","o","y">>,
     <<"h","a","p","p","y">>,
     <<"p","l","e","a","s","e","d">>,
     <<"s","a","t","i","s","f","i","e","d">>,
     <<"c","o","n","f","i","d","e","n","t">>,
     <<"e","x","c","i","t","e","d">>,
     <<"i","n","t","e","r","e","s","t","e","d">>,
     <<"i","m","p","r","e","s","s","i","v","e">>,
     <<"o","u","t","s","t","a","n","d","i","n","g">> >>

\* analysis-utils.ts calculateSentimentScore: the negative keyword list.
negativeWords ==
  << <<"b","a","d">>,
     <<"t","e","r","r","i","b","l","e">>,
     <<"a","w","f","u","l">>,
     <<"h","o","r","r","i","b","l","e">>,
     <<"h","a","t","e">>,
     <<"d","i","s","l","i","k","e">>,
     <<"a","n","g","r","y">>,
     <<"f","r","u","s","t","r","a","t","e","d">>,
     <<"d","i","s","a","p","p","o","i","n","t","e","d">>,
     <<"c","o","n","c","e","r","n","e","d">>,
     <<"w","o","r","r","i","e","d">>,
     <<"d","i","f","f","i","c","u","l","t">>,
     <<"p","r","o","b","l","e","m">>,
     <<"i","s","s","u","e">>,
     <<"c","h","a","l","l","e","n","g","i","n","g">>,
     <<"c","o","n","f","u","s","i","n","g">>,
     <<"u","n","c","l","e","a","r">>,
     <<"w","r","o","n","g">> >>

\* analysis-utils.ts createMockTranscript: five fixed messages (user, client, user, client, user).
createMockTranscript ==
  << [speaker |-> <<"u","s","e","r">>,
      message |->
        <<"H","i"," ","t","h","e","r","e","!"," ","I","'","m"," ","r","e","a","l","l","y"," ",
          "e","x","c","i","t","e","d"," ","t","o"," ","t","a","l","k"," ","a","b","o","u","t",
          " ","o","u","r"," ","n","e","w"," ","p","r","o","d","u","c","t","."," ","I","t","'",
          "s"," ","a","b","s","o","l","u","t","e","l","y"," ","a","m","a","z","i","n","g"," ",
          "a","n","d"," ","I"," ","t","h","i","n","k"," ","y","o","u","'","l","l"," ","l","o",
          "v","e"," ","i","t",".">>],
     [speaker |-> <<"c","l","i","e","n","t">>,
      message |->
        <<"T","e","l","l"," ","m","e"," ","m","o","r","e"," ","a","b","o","u","t"," ","i","t",
          "."," ","W","h","a","t"," ","m","a","k","e","s"," ","i","t"," ","s","p","e","c","i",
          "a","l","?">>],
     [speaker |-> <<"u","s","e","r">>,
      message |->
        <<"W","e","l","l",","," ","u","m",","," ","i","t","'","s"," ","l","i","k","e"," ","r",
          "e","a","l","l","y"," ","g","o","o","d"," ","b","e","c","a","u","s","e",","," ","y",
          "o","u"," ","k","n","o","w",","," ","i","t"," ","s","o","l","v","e","s"," ","t","h",
          "e"," ","m","a","i","n"," ","p","r","o","b","l","e","m"," ","t","h","a","t",","," ",
          "u","h",","," ","m","o","s","t"," ","p","e","o","p","l","e"," ","h","a","v","e",".">>],
     [speaker |-> <<"c","l","i","e","n","t">>,
      message |->
        <<"I"," ","s","e","e","."," ","C","a","n"," ","y","o","u"," ","b","e"," ","m","o","r",
          "e"," ","s","p","e","c","i","f","i","c"," ","a","b","o","u","t"," ","t","h","e"," ",
          "p","r","o","b","l","e","m"," ","i","t"," ","s","o","l","v","e","s","?">>],
     [speaker |-> <<"u","s","e","r">>,
      message |->
        <<"A","b","s","o","l","u","t","e","l","y","!"," ","I","t"," ","b","a","s","i","c","a",
          "l","l","y"," ","s","a","v","e","s"," ","t","i","m","e"," ","a","n","d",","," ","s",
          "o","r","t"," ","o","f",","," ","m","a","k","e","s"," ","e","v","e","r","y","t","h",
          "i","n","g"," ","m","o","r","e"," ","e","f","f","i","c","i","e","n","t"," ","f","o",
          "r"," ","y","o","u","r"," ","t","e","a","m",".">>] >>

\* [a, b, c].join(' ')
RECURSIVE JoinSpace(_)
JoinSpace(parts) ==
  IF parts = <<>> THEN <<>>
  ELSE IF Len(parts) = 1 THEN Head(parts)
  ELSE Head(parts) \o <<" ">> \o JoinSpace(Tail(parts))

\* undefined joins as the empty string.
MessageText(msg) == IF "message" \in DOMAIN msg THEN msg.message ELSE <<>>

\* Variant: the messages are joined without a separator.
extractTranscriptTextUnspaced(transcript) ==
  IF transcript = <<>> THEN <<>>
  ELSE LET RECURSIVE Join(_)
           Join(parts) == IF parts = <<>> THEN <<>> ELSE Head(parts) \o Join(Tail(parts))
       IN  trim(Join([i \in 1..Len(transcript) |-> MessageText(transcript[i])]))

extractTranscriptText(transcript) ==
  IF transcript = <<>> THEN <<>>
  ELSE trim(JoinSpace([i \in 1..Len(transcript) |-> MessageText(transcript[i])]))

UserWords == << <<"u","s","e","r">>, <<"y","o","u">>,
                <<"s","p","e","a","k","e","r","_","1">> >>

IsUserSpeaker(speaker) ==
  \E k \in 1..Len(UserWords) : Includes(toLowerCase(speaker), UserWords[k])

\* msg.speaker.toLowerCase() throws a TypeError when a message has no speaker.
MetricsThrow(transcript) ==
  \E i \in 1..Len(transcript) : "speaker" \notin DOMAIN transcript[i]

\* Variant: the speaker names are compared as written.
calculateTalkTimeRatioCaseSensitive(transcript) ==
  IF transcript = <<>> THEN Ratio(0, 1)
  ELSE Ratio(Cardinality({ i \in 1..Len(transcript) :
                             \E k \in 1..Len(UserWords) :
                                Includes(transcript[i].speaker, UserWords[k]) }),
             Len(transcript))

calculateTalkTimeRatio(transcript) ==
  IF transcript = <<>> THEN Ratio(0, 1)
  ELSE Ratio(Cardinality({ i \in 1..Len(transcript) : IsUserSpeaker(transcript[i].speaker) }),
             Len(transcript))

countFillerWords(transcript) ==
  LET text == toLowerCase(extractTranscriptText(transcript))
  IN  SumSeq([k \in 1..Len(fillerWords) |-> MatchCount(text, fillerWords[k])])

\* Variant: a transcript without sentiment words scores 0.
calculateSentimentScoreZeroNeutral(transcript) ==
  LET text == toLowerCase(extractTranscriptText(transcript))
      positiveCount == SumSeq([k \in 1..Len(positiveWords) |-> MatchCount(text, positiveWords[k])])
      negativeCount == SumSeq([k \in 1..Len(negativeWords) |-> MatchCount(text, negativeWords[k])])
      totalSentimentWords == positiveCount + negativeCount
  IN  IF totalSentimentWords = 0 THEN Ratio(0, 1)
      ELSE Ratio(positiveCount, totalSentimentWords)

calculateSentimentScore(transcript) ==
  LET text == toLowerCase(extractTranscriptText(transcript))
      positiveCount == SumSeq([k \in 1..Len(positiveWords) |-> MatchCount(text, positiveWords[k])])
      negativeCount == SumSeq([k \in 1..Len(negativeWords) |-> MatchCount(text, negativeWords[k])])
      totalSentimentWords == positiveCount + negativeCount
  IN  IF totalSentimentWords = 0 THEN Ratio(1, 2)
      ELSE Ratio(positiveCount, totalSentimentWords)

\* Variant: the rate is cut to a whole number, not rounded.
calculateSpeakingPaceTruncated(transcript, durationSeconds) ==
  IF Falsy(durationSeconds) \/ durationSeconds.val <= 0 THEN 0
  ELSE (60 * WordCount(extractTranscriptText(transcript))) \div durationSeconds.val

\* Math.round(wordCount / durationMinutes) with both quotients in double
\* arithmetic, for a word count and a whole number of seconds.
PaceInDoubles(wordCount, seconds) ==
  LET durationMinutes == Quotient(FromNatural(seconds), FromNatural(60))
  IN  MathRound(Quotient(FromNatural(wordCount), durationMinutes))

\* durationSeconds is absent or a whole number of seconds.  Where the exact
\* quotient 60 * wordCount / seconds does not end in one half, the rounding
\* errors of the two divisions (below 2^-51 of the quotient) are smaller than
\* its distance 1 / (2 * seconds) from a half, and Math.round gives the
\* nearest integer of the exact quotient; at one half the doubles decide.
calculateSpeakingPace(transcript, durationSeconds) ==
  IF Falsy(durationSeconds) \/ durationSeconds.val <= 0 THEN 0
  ELSE LET wordCount == WordCount(extractTranscriptText(transcript))
           seconds   == durationSeconds.val
       IN  IF (2 * 60 * wordCount) % (2 * seconds) = seconds
             THEN PaceInDoubles(wordCount, seconds)
             ELSE (2 * 60 * wordCount + seconds) \div (2 * seconds)

generateAnalysisMetrics(transcript, durationSeconds) ==
  [ talkTimeRatio    |-> calculateTalkTimeRatio(transcript),
    fillerWordsCount |-> countFillerWords(transcript),
    speakingPaceWpm  |-> calculateSpeakingPace(transcript, durationSeconds),
    sentimentScore   |-> calculateSentimentScore(transcript) ]

-----------------------------------------------------------------------------
(* Provider-response validation and the mock analysis generator.            *)

\* Record spread {...a, ...b}: b's fields win.
Merge(a, b) ==
  [f \in (DOMAIN a) \cup (DOMAIN b) |-> IF f \in DOMAIN b THEN b[f] ELSE a[f]]

requiredFields == {"overallScore", "strengths", "areasForImprovement"}

\* A provider response text is [json |-> FALSE] when JSON.parse throws on it,
\* and otherwise [json |-> TRUE, doc |-> the parsed object], a record of the
\* JSON values of the properties it has.  The result is Null or the object.
parseAnalysisResponse(response) ==
  IF ~response.json THEN Null
  ELSE IF \A field \in requiredFields : field \in DOMAIN response.doc
    THEN response.doc
    ELSE Null

\* The two canned scenarios of generateMockAnalysis, and the values that
\* Math.floor(Math.random() * 3 + base) can take for each.  Every list and
\* text of a scenario is a fixed literal; the id (demo-<now>), the date and
\* the random duration (15-24) of the result are not modelled.
MockScenario(n, score) ==
  [ title                 |-> Str(IF n = 1 THEN <<"Sales Discovery Call Analysis">>
                                           ELSE <<"Product Demo Session Analysis">>),
    overallScore          |-> Num(score),
    strengths             |-> Arr(<<"s1", "s2", "s3", "s4">>),
    areasForImprovement   |-> Arr(<<"i1", "i2", "i3", "i4">>),
    effectiveTechniques   |-> Arr(IF n = 1 THEN <<"t1", "t2">> ELSE <<"t1", "t2", "t3">>),
    techniquesNeedingWork |-> Arr(<<"w1", "w2", "w3", "w4">>),
    objectionHandling     |-> Obj([score |-> Num(IF n = 1 THEN 3 ELSE 6),
                                   analysis |-> Str(<<"objection handling">>)]),
    closingEffectiveness  |-> Obj([score |-> Num(IF n = 1 THEN 2 ELSE 4),
                                   analysis |-> Str(<<"closing effectiveness">>)]),
    keyRecommendations    |-> Arr(<<"r1", "r2", "r3", "r4", "r5">>),
    detailedAnalysis      |-> Str(<<"detailed analysis of scenario">>) ]

\* A mock analysis that leaves the recommendations out.
generateMockAnalysisPartial ==
  { [ f \in DOMAIN MockScenario(n, 6) \ {"keyRecommendations"} |-> MockScenario(n, 6)[f] ] :
      n \in 1..2 }

generateMockAnalysis ==
  { MockScenario(1, s) : s \in 5..7 } \cup { MockScenario(2, s) : s \in 6..8 }

-----------------------------------------------------------------------------
(* The store: rows and the operations the handlers use.                     *)

S1 == <<"s","1">>
S2 == <<"s","2">>

\* Profiles by auth user, and users by bearer credential (static tables).
AuthUser(authHeader) ==
  CASE authHeader = "Bearer tokA" -> "uA"
    [] authHeader = "Bearer tokB" -> "uB"
    [] OTHER -> ""

ProfileOfUser(user) ==
  CASE user = "uA" -> "pA"
    [] user = "uB" -> "pB"
    [] OTHER -> ""

\* A session row as the session-start route leaves it.
NewSession(owner) ==
  [ profile_id        |-> owner,
    status            |-> "active",
    processing_status |-> "pending",
    duration_seconds  |-> Null,
    minute_cost       |-> Null,
    transcript        |-> Null,
    overall_score     |-> Null,
    feedback_summary  |-> Null,
    session_type      |-> Null ]

\* .from(SESSIONS).select().eq('id', id).single(): the row, or Null.
SelectSession(tbl, id) ==
  IF IsString(id) /\ id.val \in DOMAIN tbl THEN tbl[id.val] ELSE Null

\* An update that creates the row when no row has the id.
UpdateOrInsertSession(tbl, id, fields) ==
  IF ~IsString(id) THEN tbl
  ELSE IF id.val \in DOMAIN tbl THEN [tbl EXCEPT ![id.val] = Merge(@, fields)]
  ELSE (id.val :> Merge(NewSession(""), fields)) @@ tbl

\* .from(SESSIONS).update(fields).eq('id', id): every matching row takes the fields.
UpdateSession(tbl, id, fields) ==
  IF IsString(id) /\ id.val \in DOMAIN tbl
    THEN [tbl EXCEPT ![id.val] = Merge(@, fields)]
    ELSE tbl

\* Tables without a primary key of their own in the model are bags of rows.
RowsFor(table, sid) == { row \in DOMAIN table : row.session_id = sid }

RowCount(table, sid) ==
  BagCardinality([row \in RowsFor(table, sid) |-> table[row]])

Insert(table, row) == table (+) SetToBag({row})

\* An upsert with no conflict target: a plain insert.
UpsertAsInsert(table, row) == Insert(table, row)

\* An upsert that ignores duplicates: the row that is there stays.
UpsertKeepingOld(table, row) ==
  IF RowsFor(table, row.session_id) # {} THEN table ELSE Insert(table, row)

\* .upsert(row, { onConflict: 'session_id' }): insert, or replace the row that
\* has the same session_id.
Upsert(table, row) ==
  LET others == { old \in DOMAIN table : old.session_id # row.session_id }
  IN  [old \in others |-> table[old]] (+) SetToBag({row})

\* ON CONFLICT (session_id) needs the unique index on session_id, and the
\* row references its session: a write for an id with no session row fails.
ForeignKeyOk(tbl, sid) == sid \in DOMAIN tbl

-----------------------------------------------------------------------------
(* Bounds of the exploration.                                               *)

\* Requests that are served, possibly overlapping.
MaxReq == 2
\* Store and network calls that fail (return an error or throw) in one run of SpecAny.
MaxFaults == 1

Slots == 1..MaxReq

-----------------------------------------------------------------------------
(* State.                                                                   *)

VARIABLES
  env,               \* process.env: SERVER_SECRET ("" when unset), OPENAI_API_KEY set or not
  sessions,          \* TABLES.SESSIONS: id -> row
  subscriptions,     \* TABLES.SUBSCRIPTIONS: the active subscription row by profile id
  usage,             \* TABLES.USAGE: bag of rows
  audit_logs,        \* TABLES.AUDIT_LOGS: bag of rows
  analysis_results,  \* TABLES.ANALYSIS_RESULTS: bag of rows
  session_analytics, \* TABLES.SESSION_ANALYTICS: bag of rows
  req,               \* the requests being served: slot -> handler frame
  failuresLeft,      \* store and network calls that may still fail in this run
  browser,           \* the session page: localStorage and the end of the session in progress
  lib                \* a call of a library function: its arguments and its result

store == <<sessions, subscriptions, usage, audit_logs, analysis_results, session_analytics>>
vars == <<env, sessions, subscriptions, usage, audit_logs, analysis_results,
          session_analytics, req, failuresLeft,
         browser, lib>>

\* NextResponse.json(body, { status })
Json(status, body) == [status |-> status, body |-> body]

\* A slot that serves no request yet.  pc is the place of the end-session
\* handler, apc that of the analyze handler (run for an analyze request, or
\* for the fetch that end-session makes); every other field is a local of
\* one of the two handlers, or a record of what the frame has done.
IdleFrame ==
  [ kind |-> "none", pc |-> "none", apc |-> "none",
    ereq |-> Null, areq |-> Null, greq |-> Null,
    user |-> "", profile |-> "", session |-> Null, subscription |-> Null,
    updatedSession |-> Null, analysisTriggered |-> FALSE, analysisResult |-> Null,
    auser |-> "", aprofile |-> "", metrics |-> Null, analysis |-> Null, sessionData |-> Null,
    aresp |-> Null, resp |-> Null, raised |-> "", afailed |-> {},
    charged |-> FALSE, ewrote |-> FALSE, awrote |-> FALSE, acalled |-> FALSE,
    afterDone |-> {} ]

Set(r, fields) == req' = [req EXCEPT ![r] = Merge(@, fields)]

\* The outcomes of one awaited store or network call.
CallOutcomes == IF failuresLeft > 0 THEN {"ok", "error", "throw"} ELSE {"ok"}
Count(o) == failuresLeft' = IF o = "ok" THEN failuresLeft ELSE failuresLeft - 1

SecretValue == "sekret"

InitialSessions == (S1 :> NewSession("pA")) @@ (S2 :> NewSession("pA"))
InitialSubscriptions == ("pA" :> [status |-> "active", minutes_used |-> 0])

\* The state when the first request arrives: two active sessions of profile
\* pA, which has an active subscription; failures is the number of store and
\* network calls that may fail.
\* The server when the first request arrives, in one of the environments envs.
ServerStart(envs, failures) ==
  /\ env \in envs
  /\ sessions = InitialSessions
  /\ subscriptions = InitialSubscriptions
  /\ usage = EmptyBag
  /\ audit_logs = EmptyBag
  /\ analysis_results = EmptyBag
  /\ session_analytics = EmptyBag
  /\ req = [r \in Slots |-> IdleFrame]
  /\ failuresLeft = failures

\* A browser that has saved nothing yet.
EmptyBrowser ==
  [ demoSessions |-> <<>>, analyses |-> <<>>, now |-> 0, issued |-> 0, awaiting |-> 0,
    resaves |-> 0, analysed |-> 0 ]

\* No library call.
NoCall == [fn |-> "none"]

Init(failures) ==
  /\ ServerStart([SERVER_SECRET : {SecretValue, ""}, OPENAI_API_KEY : BOOLEAN], failures)
  /\ browser = EmptyBrowser
  /\ lib = NoCall

-----------------------------------------------------------------------------
(* The requests that are sent.                                              *)

UserSpeaker == <<"u","s","e","r">>

S9 == <<"s","9">>
DemoId == <<"d","e","m","o","-","1">>
TempId == <<"t","e","m","p","-","1">>

UserMessageA ==
  <<"u","m"," ","w","e"," ","l","i","k","e"," ","t","h","i","s"," ","g","r","e","a","t"," ",
    "p","l","a","n">>
ClientMessageB ==
  <<"s","o"," ","t","h","e"," ","b","a","d"," ","i","s","s","u","e"," ","i","s"," ","r","e",
    "a","l"," ","n","o","w">>
ShortMessage == <<"h","i"," ","u","m">>

TranscriptA == <<[speaker |-> UserSpeaker, message |-> UserMessageA]>>
TranscriptB == <<[speaker |-> <<"c","l","i","e","n","t">>, message |-> ClientMessageB]>>
TranscriptShort == <<[speaker |-> UserSpeaker, message |-> ShortMessage]>>
TranscriptNoSpeaker == <<[message |-> UserMessageA]>>

\* transcriptText.length < 20: no meaningful transcript.
MinTranscriptLength == 20

AnalyzeRequests ==
  [ bodyOk       : {TRUE},
    sessionId    : {Str(S1), Str(S9), Str(DemoId), Str(TempId), Undefined, Num(7)},
    transcript   : {Undefined, Arr(TranscriptA), Arr(TranscriptB), Arr(TranscriptShort),
                    Arr(TranscriptNoSpeaker), Str(UserMessageA),
                    Str(SubSeq(UserMessageA, 1, MinTranscriptLength - 1)),
                    Str(SubSeq(UserMessageA, 1, MinTranscriptLength))},
    duration     : {Undefined, Num(90)},
    authHeader   : {"", "Bearer tokA", "Bearer tokB", "Bearer bad"},
    serverSecret : {"", SecretValue, "wrong"} ]
  \cup
  [ bodyOk : {FALSE}, sessionId : {Undefined}, transcript : {Undefined},
    duration : {Undefined}, authHeader : {""}, serverSecret : {""} ]

CoreAnalyzeRequests ==
  [ bodyOk       : {TRUE},
    sessionId    : {Str(S1)},
    transcript   : {Arr(TranscriptA), Arr(TranscriptB)},
    duration     : {Num(90)},
    authHeader   : {"Bearer tokA"},
    serverSecret : {""} ]

EndSessionRequests ==
  [ bodyOk           : {TRUE},
    session_id       : {Str(S1), Str(S9), Str(DemoId), Str(TempId), Undefined, Num(7)},
    duration_seconds : {Undefined, Num(0), Num(90), Num(185), Str(<<"9","0">>)},
    transcript       : {Undefined, Arr(<<>>), Arr(TranscriptA), Arr(TranscriptShort),
                        Str(UserMessageA), Str(<<>>)},
    authHeader       : {"", "Bearer tokA", "Bearer tokB", "Bearer bad"} ]
  \cup
  [ bodyOk : {FALSE}, session_id : {Undefined}, duration_seconds : {Undefined},
    transcript : {Undefined}, authHeader : {""} ]

CoreEndSessionRequests ==
  [ bodyOk           : {TRUE},
    session_id       : {Str(S1), Str(S2)},
    duration_seconds : {Num(90), Num(185)},
    transcript       : {Undefined, Arr(TranscriptA)},
    authHeader       : {"Bearer tokA"} ]

-----------------------------------------------------------------------------
(* end-session: src/unnamed/part_001.                                       *)

validateEndSession(data) ==
  /\ ~(Falsy(data.session_id) \/ ~IsString(data.session_id))
  /\ ~(Falsy(data.duration_seconds) \/ ~IsNumber(data.duration_seconds)
         \/ data.duration_seconds.val <= 0)
  /\ ~(~Falsy(data.transcript) /\ ~IsArray(data.transcript))

\* Math.ceil(seconds / 60) for a positive whole number of seconds.
MinutesUsed(seconds) == (seconds + 59) \div 60

\* validatedData.transcript && validatedData.transcript.length > 0
HasTranscript(data) == ~Falsy(data.transcript) /\ Len(data.transcript.val) > 0

InternalServerError == Json(500, [error |-> "Internal server error"])

EndDone(r, response) == Set(r, [pc |-> "done", resp |-> response])

\* The request arrives: the slot starts to serve it.
ReceiveEndSession(r, requests) ==
  /\ req[r].kind = "none"
  /\ \A q \in Slots : q < r => req[q].kind # "none"
  /\ \E http \in requests :
       Set(r, [kind |-> "end", pc |-> "e_begin", ereq |-> http,
               afterDone |-> { q \in Slots : req[q].pc = "done" }])
  /\ UNCHANGED <<browser, lib, env, store, failuresLeft>>

DemoEndResponse(data, triggered) ==
  Json(200, [session |-> [ id |-> data.session_id, status |-> "completed",
                           duration_seconds |-> data.duration_seconds,
                           minute_cost |-> 0,
                           minutes_used |-> MinutesUsed(data.duration_seconds.val),
                           isDemo |-> TRUE,
                           analysisTriggered |-> triggered ]])

\* Lines 20-78: parse, validate, the demo branch, the authorization header.
EndBegin(r) ==
  LET data == req[r].ereq IN
  /\ req[r].pc = "e_begin"
  /\ IF ~data.bodyOk \/ ~validateEndSession(data)
       THEN EndDone(r, InternalServerError)
     ELSE IF StartsWith(data.session_id.val, DemoPrefix)
       THEN IF HasTranscript(data)
              THEN Set(r, [pc |-> "e_fetch"])
              ELSE EndDone(r, DemoEndResponse(data, FALSE))
     ELSE IF data.authHeader = ""
       THEN EndDone(r, Json(401, [error |-> "Authorization header required"]))
     ELSE Set(r, [pc |-> "e_getUser"])
  /\ UNCHANGED <<browser, lib, env, store, failuresLeft>>

\* Lines 83-86: supabase.auth.getUser(token).
EndGetUser(r) ==
  /\ req[r].pc = "e_getUser"
  /\ \E o \in CallOutcomes :
       /\ Count(o)
       /\ LET user == AuthUser(req[r].ereq.authHeader) IN
          CASE o = "throw" -> EndDone(r, InternalServerError)
            [] o = "error" \/ (o = "ok" /\ user = "") ->
                 EndDone(r, Json(401, [error |-> "Invalid authorization token"]))
            [] OTHER -> Set(r, [pc |-> "e_profile", user |-> user])
  /\ UNCHANGED <<browser, lib, env, store>>

\* Lines 89-97: the caller's profile.
EndGetProfile(r) ==
  /\ req[r].pc = "e_profile"
  /\ \E o \in CallOutcomes :
       /\ Count(o)
       /\ LET profile == ProfileOfUser(req[r].user) IN
          CASE o = "throw" -> EndDone(r, InternalServerError)
            [] o = "error" \/ (o = "ok" /\ profile = "") ->
                 EndDone(r, Json(404, [error |-> "User profile not found"]))
            [] OTHER -> Set(r, [pc |-> "e_session", profile |-> profile])
  /\ UNCHANGED <<browser, lib, env, store>>

\* Lines 101-111 without the check of the status at 113-115.
EndGetSessionUnchecked(r) ==
  /\ req[r].pc = "e_session"
  /\ \E o \in CallOutcomes :
       /\ Count(o)
       /\ LET row == SelectSession(sessions, req[r].ereq.session_id)
              session == IF o = "ok" /\ row # Null /\ row.profile_id = req[r].profile
                           THEN row ELSE Null
          IN
          CASE o = "throw" -> EndDone(r, InternalServerError)
            [] o # "throw" /\ session = Null ->
                 EndDone(r, Json(404, [error |-> "Session not found or access denied"]))
            [] OTHER -> Set(r, [pc |-> "e_update", session |-> session])
  /\ UNCHANGED <<browser, lib, env, store>>

\* Lines 102-115: the session, its owner and its status.
EndGetSession(r) ==
  /\ req[r].pc = "e_session"
  /\ \E o \in CallOutcomes :
       /\ Count(o)
       /\ LET row == SelectSession(sessions, req[r].ereq.session_id)
              session == IF o = "ok" /\ row # Null /\ row.profile_id = req[r].profile
                           THEN row ELSE Null
          IN
          CASE o = "throw" -> EndDone(r, InternalServerError)
            [] o # "throw" /\ session = Null ->
                 EndDone(r, Json(404, [error |-> "Session not found or access denied"]))
            [] o # "throw" /\ session # Null /\ session.status # "active" ->
                 EndDone(r, Json(400, [error |-> "Session is not active"]))
            [] OTHER -> Set(r, [pc |-> "e_update", session |-> session])
  /\ UNCHANGED <<browser, lib, env, store>>

\* An update that marks every ended session as fully processed.
updateDataAlwaysCompleted(data) ==
  LET base == [ status            |-> "completed",
                duration_seconds  |-> data.duration_seconds,
                minute_cost       |-> Num(MinutesUsed(data.duration_seconds.val)),
                processing_status |-> "completed" ]
  IN  IF ~Falsy(data.transcript) THEN Merge(base, [transcript |-> data.transcript])
                                 ELSE base

\* Lines 117-136.  minute_cost is kept in units of $0.1 (minutesUsed * 0.1).
updateData(data) ==
  LET base == [ status            |-> "completed",
                duration_seconds  |-> data.duration_seconds,
                minute_cost       |-> Num(MinutesUsed(data.duration_seconds.val)),
                processing_status |-> IF ~Falsy(data.transcript) THEN "analyzing"
                                                                 ELSE "completed" ]
  IN  IF ~Falsy(data.transcript) THEN Merge(base, [transcript |-> data.transcript])
                                 ELSE base

\* Lines 138-148: the update of the session row.
EndUpdateSession(r) ==
  LET data == req[r].ereq IN
  /\ req[r].pc = "e_update"
  /\ \E o \in CallOutcomes :
       /\ Count(o)
       /\ CASE o = "throw" ->
                 /\ EndDone(r, InternalServerError)
                 /\ UNCHANGED sessions
            [] o = "error" ->
                 /\ EndDone(r, Json(500, [error |-> "Failed to update session"]))
                 /\ UNCHANGED sessions
            [] OTHER ->
                 /\ sessions' = UpdateSession(sessions, data.session_id, updateData(data))
                 /\ Set(r, [pc |-> "e_subSelect", ewrote |-> TRUE,
                            updatedSession |-> SelectSession(sessions', data.session_id)])
  /\ UNCHANGED <<browser, lib, env, subscriptions, usage, audit_logs, analysis_results, session_analytics>>

\* After the usage accounting: trigger the analysis, or go on to the audit log.
AfterUsage(r) == IF HasTranscript(req[r].ereq) THEN "e_fetch" ELSE "e_audit"

\* A subscription lookup that rejects the request when it finds none.
EndSelectSubscriptionOrReject(r) ==
  /\ req[r].pc = "e_subSelect"
  /\ \E o \in CallOutcomes :
       /\ Count(o)
       /\ LET subscription ==
                IF o = "ok" /\ req[r].profile \in DOMAIN subscriptions
                     /\ subscriptions[req[r].profile].status = "active"
                  THEN subscriptions[req[r].profile] ELSE Null
          IN
          CASE o = "throw" -> EndDone(r, InternalServerError)
            [] o # "throw" /\ subscription = Null ->
                 EndDone(r, Json(404, [error |-> "Subscription not found"]))
            [] OTHER -> Set(r, [pc |-> "e_subUpdate", subscription |-> subscription])
  /\ UNCHANGED <<browser, lib, env, store>>

\* Lines 151-156: the caller's active subscription.
EndSelectSubscription(r) ==
  /\ req[r].pc = "e_subSelect"
  /\ \E o \in CallOutcomes :
       /\ Count(o)
       /\ LET subscription ==
                IF o = "ok" /\ req[r].profile \in DOMAIN subscriptions
                     /\ subscriptions[req[r].profile].status = "active"
                  THEN subscriptions[req[r].profile] ELSE Null
          IN
          CASE o = "throw" -> EndDone(r, InternalServerError)
            [] o # "throw" /\ subscription = Null -> Set(r, [pc |-> AfterUsage(r)])
            [] OTHER -> Set(r, [pc |-> "e_subUpdate", subscription |-> subscription])
  /\ UNCHANGED <<browser, lib, env, store>>

\* Lines 159-164: minutes_used := (the value read) + minutesUsed.
EndUpdateSubscription(r) ==
  LET minutesUsed == MinutesUsed(req[r].ereq.duration_seconds.val) IN
  /\ req[r].pc = "e_subUpdate"
  /\ \E o \in CallOutcomes :
       /\ Count(o)
       /\ CASE o = "throw" ->
                 /\ EndDone(r, InternalServerError)
                 /\ UNCHANGED subscriptions
            [] o = "error" ->
                 /\ Set(r, [pc |-> "e_usage"])
                 /\ UNCHANGED subscriptions
            [] OTHER ->
                 /\ subscriptions' =
                      [subscriptions EXCEPT ![req[r].profile].minutes_used =
                                               req[r].subscription.minutes_used + minutesUsed]
                 /\ Set(r, [pc |-> "e_usage", ewrote |-> TRUE, charged |-> TRUE])
  /\ UNCHANGED <<browser, lib, env, sessions, usage, audit_logs, analysis_results, session_analytics>>

\* Lines 167-174: the usage record.
EndInsertUsage(r) ==
  LET data == req[r].ereq
      row == [ profile_id   |-> req[r].profile,
               minutes_used |-> MinutesUsed(data.duration_seconds.val),
               session_id   |-> data.session_id.val ]
  IN
  /\ req[r].pc = "e_usage"
  /\ \E o \in CallOutcomes :
       /\ Count(o)
       /\ CASE o = "throw" ->
                 /\ EndDone(r, InternalServerError)
                 /\ UNCHANGED usage
            [] o = "error" ->
                 /\ Set(r, [pc |-> AfterUsage(r)])
                 /\ UNCHANGED usage
            [] OTHER ->
                 /\ usage' = Insert(usage, row)
                 /\ Set(r, [pc |-> AfterUsage(r), ewrote |-> TRUE])
  /\ UNCHANGED <<browser, lib, env, sessions, subscriptions, audit_logs, analysis_results, session_analytics>>

\* A network call (fetch, the provider's API) returns or throws.
NetOutcomes == IF failuresLeft > 0 THEN {"ok", "throw"} ELSE {"ok"}

IsDemoEnd(r) == StartsWith(req[r].ereq.session_id.val, DemoPrefix)

\* The body and headers of the fetch to /api/session/analyze (lines 36-47 for
\* a demo session, lines 189-201 otherwise; an unset SERVER_SECRET is sent
\* as the header text "undefined").
AnalyzeCall(r) ==
  LET data == req[r].ereq IN
  [ bodyOk       |-> TRUE,
    sessionId    |-> data.session_id,
    transcript   |-> data.transcript,
    duration     |-> data.duration_seconds,
    authHeader   |-> "",
    serverSecret |-> IF IsDemoEnd(r) THEN ""
                     ELSE IF env.SERVER_SECRET = "" THEN "undefined"
                     ELSE env.SERVER_SECRET ]

\* A trigger whose failure ends the request: the error is not caught.
AfterFetchUncaught(r, triggered) ==
  IF ~triggered
    THEN [pc |-> "done", resp |-> InternalServerError]
  ELSE IF IsDemoEnd(r)
    THEN [pc |-> "done", resp |-> DemoEndResponse(req[r].ereq, TRUE)]
    ELSE [pc |-> "e_audit", analysisTriggered |-> triggered]

\* What follows the try/catch around the fetch.
AfterFetch(r, triggered) ==
  IF IsDemoEnd(r)
    THEN [pc |-> "done", resp |-> DemoEndResponse(req[r].ereq, TRUE)]
    ELSE [pc |-> "e_audit", analysisTriggered |-> triggered]

\* Lines 34-47 and 180-201: the fetch is sent (or fails to be: the catch).
EndFetch(r) ==
  /\ req[r].pc = "e_fetch"
  /\ \E o \in NetOutcomes :
       /\ Count(o)
       /\ IF o = "throw"
            THEN Set(r, AfterFetch(r, FALSE))
            ELSE Set(r, [pc |-> "e_await", apc |-> "a_begin", areq |-> AnalyzeCall(r)])
  /\ UNCHANGED <<browser, lib, env, store>>

\* Lines 49-55 and 203-212: the response of the fetch (or its failure).
EndAwait(r) ==
  /\ req[r].pc = "e_await"
  /\ req[r].apc = "a_done"
  /\ \E o \in NetOutcomes :
       /\ Count(o)
       /\ Set(r, Merge([apc |-> "none", areq |-> Null, metrics |-> Null, analysis |-> Null,
                        sessionData |-> Null, aresp |-> Null, raised |-> "",
                        afailed |-> {}],
                       AfterFetch(r, o = "ok" /\ req[r].aresp.status = 200)))
  /\ UNCHANGED <<browser, lib, env, store>>

EndResponse(r) ==
  LET data == req[r].ereq
      updatedSession == req[r].updatedSession
  IN  Json(200, [session |->
        [ id                 |-> data.session_id,
          status             |-> updatedSession.status,
          duration_seconds   |-> updatedSession.duration_seconds,
          minute_cost        |-> MinutesUsed(data.duration_seconds.val),
          minutes_used       |-> MinutesUsed(data.duration_seconds.val),
          transcript_stored  |-> HasTranscript(data),
          analysis_triggered |-> req[r].analysisTriggered,
          processing_status  |-> updatedSession.processing_status ]])

\* Lines 216-245: the audit log entry and the response.
EndAudit(r) ==
  LET data == req[r].ereq
      row == [ user_id             |-> req[r].user,
               session_id          |-> data.session_id.val,
               duration_seconds    |-> data.duration_seconds.val,
               minutes_used        |-> MinutesUsed(data.duration_seconds.val),
               transcript_provided |-> HasTranscript(data),
               analysis_triggered  |-> req[r].analysisTriggered ]
  IN
  /\ req[r].pc = "e_audit"
  /\ \E o \in CallOutcomes :
       /\ Count(o)
       /\ CASE o = "throw" ->
                 /\ EndDone(r, InternalServerError)
                 /\ UNCHANGED audit_logs
            [] o = "error" ->
                 /\ EndDone(r, EndResponse(r))
                 /\ UNCHANGED audit_logs
            [] OTHER ->
                 /\ audit_logs' = Insert(audit_logs, row)
                 /\ Set(r, [pc |-> "done", resp |-> EndResponse(r), ewrote |-> TRUE])
  /\ UNCHANGED <<browser, lib, env, sessions, subscriptions, usage, analysis_results, session_analytics>>

-----------------------------------------------------------------------------
(* analyze: src/unnamed/part_002, lines 90-380.                             *)

\* The request arrives: the slot starts to serve it.
ReceiveAnalyze(r, requests) ==
  /\ req[r].kind = "none"
  /\ \A q \in Slots : q < r => req[q].kind # "none"
  /\ \E http \in requests :
       Set(r, [kind |-> "analyze", apc |-> "a_begin", areq |-> http,
               afterDone |-> { q \in Slots : req[q].pc = "done" }])
  /\ UNCHANGED <<browser, lib, env, store, failuresLeft>>

\* The analyze handler returns: to the caller of the route, or to the fetch
\* of the end-session handler that runs in the same slot.
Reply(r, response) ==
  IF req[r].kind = "analyze"
    THEN [apc |-> "a_done", aresp |-> response, pc |-> "done", resp |-> response]
    ELSE [apc |-> "a_done", aresp |-> response]

MockMetrics == generateAnalysisMetrics(createMockTranscript, Num(300))

\* An outer catch that answers with the error.
CatchResponseAsError(mock) == Json(500, [error |-> "error.message"])

\* Lines 366-379: the outer catch.
CatchResponse(mock) ==
  Json(200, [analysis |-> mock, metrics |-> MockMetrics, isDemo |-> TRUE,
             error |-> "error.message"])

\* Lines 165-176: the transcript as an array and as text.
TranscriptArray(transcript) ==
  IF IsString(transcript) THEN <<[speaker |-> UserSpeaker, message |-> transcript.val]>>
  ELSE IF IsArray(transcript) THEN transcript.val
  ELSE <<>>

TranscriptText(transcript) ==
  IF IsString(transcript) THEN transcript.val
  ELSE IF IsArray(transcript) THEN extractTranscriptText(transcript.val)
  ELSE <<>>

\* The replies that give one of the responses.
Replies(r, responses) == { Reply(r, response) : response \in responses }

\* The same replies, given by a catch block: raised names the place of the
\* exception it caught.
Raised(where, replies) == { Merge(reply, [raised |-> where]) : reply \in replies }

\* Lines 366-379: the outer catch answers an exception raised at `where`.
Caught(r, where) ==
  Raised(where, Replies(r, { CatchResponse(mock) : mock \in generateMockAnalysis }))

\* A main segment that sends every transcript, however short, to the provider.
MainSegmentWithoutGate(r) ==
  LET call == req[r].areq
      transcriptArray == TranscriptArray(call.transcript)
      Unconfigured(mock) == Json(200, [analysis |-> mock, isDemo |-> TRUE])
  IN
  IF ~env.OPENAI_API_KEY
    THEN Replies(r, { Unconfigured(mock) : mock \in generateMockAnalysis })
  ELSE IF MetricsThrow(transcriptArray)
    THEN Caught(r, "metrics")
  ELSE {[ apc     |-> "a_provider",
          metrics |-> generateAnalysisMetrics(transcriptArray, OrElse(call.duration, Num(0))) ]}

\* Lines 156-200, run once the caller is authorized, up to the provider call:
\* the fields the frame can take.
MainSegment(r) ==
  LET call == req[r].areq
      transcriptArray == TranscriptArray(call.transcript)
      transcriptText == TranscriptText(call.transcript)
      Unconfigured(mock) == Json(200, [analysis |-> mock, isDemo |-> TRUE])
      gateMetrics == generateAnalysisMetrics(createMockTranscript,
                                             OrElse(call.duration, Num(300)))
      Gate(mock) == Json(200, [analysis |-> mock, metrics |-> gateMetrics, isDemo |-> TRUE])
  IN
  IF ~env.OPENAI_API_KEY
    THEN Replies(r, { Unconfigured(mock) : mock \in generateMockAnalysis })
  ELSE IF Len(transcriptText) < MinTranscriptLength
    THEN Replies(r, { Gate(mock) : mock \in generateMockAnalysis })
  ELSE IF MetricsThrow(transcriptArray)
    THEN Caught(r, "metrics")
  ELSE {[ apc     |-> "a_provider",
          metrics |-> generateAnalysisMetrics(transcriptArray, OrElse(call.duration, Num(0))) ]}

\* Lines 91-111 and 152-154: parse, the demo short-circuit, the credentials.
BeginSegment(r) ==
  LET call == req[r].areq
      demoTranscript == IF IsArray(call.transcript) THEN call.transcript.val
                                                   ELSE createMockTranscript
      demoMetrics == generateAnalysisMetrics(demoTranscript, OrElse(call.duration, Num(300)))
      Demo(mock) == Json(200, [analysis |-> mock, metrics |-> demoMetrics, isDemo |-> TRUE])
  IN
  IF ~call.bodyOk
    THEN Caught(r, "body")
  ELSE IF ~IsString(call.sessionId) /\ ~Falsy(call.sessionId)
    \* sessionId?.startsWith is not a function: a TypeError
    THEN Caught(r, "sessionId")
  ELSE IF IsString(call.sessionId) /\ StartsWith(call.sessionId.val, DemoPrefix)
    THEN IF MetricsThrow(demoTranscript)
           THEN Caught(r, "metrics")
           ELSE Replies(r, { Demo(mock) : mock \in generateMockAnalysis })
  ELSE IF call.serverSecret # "" /\ call.serverSecret = env.SERVER_SECRET
    THEN MainSegment(r)
  ELSE IF call.authHeader # ""
    THEN {[apc |-> "a_getUser"]}
  ELSE {Reply(r, Json(401, [error |-> "Authorization required"]))}

AnalyzeBegin(r) ==
  /\ req[r].apc = "a_begin"
  /\ \E next \in BeginSegment(r) : Set(r, next)
  /\ UNCHANGED <<browser, lib, env, store, failuresLeft>>

\* Lines 126-129: userSupabase.auth.getUser().
AnalyzeGetUser(r) ==
  /\ req[r].apc = "a_getUser"
  /\ \E o \in CallOutcomes :
       /\ Count(o)
       /\ LET user == AuthUser(req[r].areq.authHeader) IN
          \E next \in
             CASE o = "throw" -> Caught(r, "auth")
               [] o = "error" \/ (o = "ok" /\ user = "") ->
                    {Reply(r, Json(401, [error |-> "Unauthorized"]))}
               [] OTHER -> {[apc |-> "a_profile", auser |-> user]} :
             Set(r, next)
  /\ UNCHANGED <<browser, lib, env, store>>

\* Lines 132-140: the caller's profile.
AnalyzeGetProfile(r) ==
  /\ req[r].apc = "a_profile"
  /\ \E o \in CallOutcomes :
       /\ Count(o)
       /\ LET profile == ProfileOfUser(req[r].auser) IN
          \E next \in
             CASE o = "throw" -> Caught(r, "auth")
               [] o = "error" \/ (o = "ok" /\ profile = "") ->
                    {Reply(r, Json(404, [error |-> "Profile not found"]))}
               [] OTHER -> {[apc |-> "a_session", aprofile |-> profile]} :
             Set(r, next)
  /\ UNCHANGED <<browser, lib, env, store>>

\* Lines 143-151: the session and its owner; then lines 156-200.
AnalyzeGetSession(r) ==
  /\ req[r].apc = "a_session"
  /\ \E o \in CallOutcomes :
       /\ Count(o)
       /\ LET session == SelectSession(sessions, req[r].areq.sessionId) IN
          \E next \in
             CASE o = "throw" -> Caught(r, "auth")
               [] o = "error" \/ (o = "ok" /\ (session = Null
                                               \/ session.profile_id # req[r].aprofile)) ->
                    {Reply(r, Json(404, [error |-> "Session not found or access denied"]))}
               [] OTHER -> MainSegment(r) :
             Set(r, next)
  /\ UNCHANGED <<browser, lib, env, store>>

\* What openai.chat.completions.create can do: throw (unreachable, timeout,
\* API error), return no content, or return a text.
ProviderDocFull ==
  [ overallScore         |-> Num(7),
    title                |-> Str(<<"D","i","s","c","o","v","e","r","y">>),
    strengths            |-> Arr(<<"clear opening">>),
    areasForImprovement  |-> Arr(<<"closing">>),
    objectionHandling    |-> Obj([score |-> Num(6), analysis |-> Str(<<"o","k">>)]),
    closingEffectiveness |-> Obj([score |-> Num(4), analysis |-> Str(<<"w","e","a","k">>)]),
    detailedAnalysis     |-> Str(<<"G","o","o","d"," ","c","a","l","l">>) ]

ProviderDocMinimal ==
  [ overallScore        |-> Num(9),
    strengths           |-> Arr(<<"rapport">>),
    areasForImprovement |-> Arr(<<"pace">>) ]

ProviderDocIncomplete ==
  [ overallScore        |-> Num(8),
    areasForImprovement |-> Arr(<<"pace">>) ]

\* A response on the provider's own terms: a score out of 100, a null list.
ProviderDocOffScale ==
  [ overallScore        |-> Num(85),
    strengths           |-> Null,
    areasForImprovement |-> Arr(<<"pace">>) ]

ProviderOutcomes ==
  { [kind |-> "throw"], [kind |-> "empty"], [kind |-> "text", json |-> FALSE] }
    \cup { [kind |-> "text", json |-> TRUE, doc |-> d] :
             d \in {ProviderDocFull, ProviderDocMinimal, ProviderDocIncomplete,
                    ProviderDocOffScale} }

\* Lines 249-254 (the date is not modelled).
finalAnalysis(call, analysis) ==
  Merge(analysis, [ id       |-> call.sessionId,
                    duration |-> Num(OrElse(call.duration, Num(0)).val \div 60) ])

\* Lines 344-348.
RealResponse(r) ==
  Json(200, [ analysis |-> finalAnalysis(req[r].areq, req[r].analysis),
              metrics  |-> req[r].metrics,
              isDemo   |-> FALSE ])

\* A save with no catch of its own: the exception reaches the outer catch.
SaveThrewToOuterCatch(r, call) ==
  Merge(Reply(r, CatchResponse(CHOOSE mock \in generateMockAnalysis : TRUE)),
        [raised |-> "persist", afailed |-> req[r].afailed \cup {call}])

\* Lines 338-348: the catch around the save absorbs an exception of the store
\* client, and the response follows.
SaveThrew(r, call) ==
  Merge(Reply(r, RealResponse(r)),
        [raised |-> "persist", afailed |-> req[r].afailed \cup {call}])

\* A call of the save returned an error: it is logged, and the save goes on.
SaveFailed(r, call, next) == [apc |-> next, afailed |-> req[r].afailed \cup {call}]

\* Lines 350-363 with the flag of the real answer.
FallbackResponseNotDemo(mockAnalysis, fallbackMetrics) ==
  Json(200, [ analysis |-> mockAnalysis, metrics |-> fallbackMetrics, isDemo |-> FALSE,
              error |-> "Failed to parse AI analysis" ])

\* Lines 350-363: the catch of the inner try.
FallbackResponse(mockAnalysis, fallbackMetrics) ==
  Json(200, [ analysis |-> mockAnalysis, metrics |-> fallbackMetrics, isDemo |-> TRUE,
              error |-> "Failed to parse AI analysis" ])

\* Lines 203-257: the provider call, the parse, and the way into the save.
AnalyzeProvider(r) ==
  LET call == req[r].areq
      fallbackMetrics == generateAnalysisMetrics(TranscriptArray(call.transcript),
                                                 OrElse(call.duration, Num(300)))
      Fallback(mock) == FallbackResponse(mock, fallbackMetrics)
  IN
  /\ req[r].apc = "a_provider"
  /\ \E out \in ProviderOutcomes :
       LET analysis == IF out.kind = "text" THEN parseAnalysisResponse(out) ELSE Null IN
       \E next \in
          CASE out.kind = "throw" -> Caught(r, "provider")
            [] out.kind = "empty" -> Caught(r, "empty")
            [] out.kind = "text" /\ analysis = Null ->
                 Raised("parse", Replies(r, { Fallback(mock) : mock \in generateMockAnalysis }))
            [] out.kind = "text" /\ analysis # Null /\ ~IsString(call.sessionId) ->
                 \* sessionId.startsWith on undefined: a TypeError inside the inner try
                 Raised("demoCheck", Replies(r, { Fallback(mock) : mock \in generateMockAnalysis }))
            [] OTHER -> {[apc |-> "a_update", analysis |-> analysis]} :
          Set(r, Merge(next, [acalled |-> TRUE]))
  /\ UNCHANGED <<browser, lib, env, store, failuresLeft>>

\* obj.field of a parsed JSON object: Undefined when the object lacks it.
Field(doc, f) == IF f \in DOMAIN doc THEN doc[f] ELSE Undefined

\* Math.round((score || 0) * 10) for a whole-number score.
Score100(score) ==
  IF Falsy(score) THEN Num(0)
  ELSE IF IsNumber(score) THEN Num(score.val * 10)
  ELSE Null

\* part?.score ? Math.round(part.score * 10) : null
SubScore100(part) ==
  IF part.type = "object" /\ "score" \in DOMAIN part.val /\ ~Falsy(part.val.score)
    THEN Num(part.val.score.val * 10)
    ELSE Null

SummaryLength == 500
Ellipsis == <<".", ".", ".">>
DefaultSessionType == Str(<<"Voice Training Session">>)

\* Lines 264-272: the fields the session row takes.
AnalyzedFields(call, analysis) ==
  LET detailed == Field(analysis, "detailedAnalysis") IN
  [ transcript        |-> Arr(TranscriptArray(call.transcript)),
    overall_score     |-> Score100(analysis.overallScore),
    feedback_summary  |-> IF Falsy(detailed) THEN Null
                          ELSE Str(SubSeq(detailed.val, 1,
                                          IF Len(detailed.val) < SummaryLength
                                            THEN Len(detailed.val) ELSE SummaryLength)
                                   \o Ellipsis),
    session_type      |-> OrElse(Field(analysis, "title"), DefaultSessionType),
    status            |-> "analyzed",
    processing_status |-> "completed" ]

\* Lines 295-302: the analysis_results row.
AnalysisRow(call, analysis) ==
  [ session_id    |-> call.sessionId.val,
    analysis_type |-> "gpt-4-sales-coaching",
    provider      |-> "openai",
    results       |-> finalAnalysis(call, analysis) ]

\* Lines 314-329: the session_analytics row (company, date and hour left out).
AnalyticsRow(call, analysis, metrics, sessionData) ==
  [ session_id               |-> call.sessionId.val,
    profile_id               |-> IF sessionData = Null THEN "" ELSE sessionData.profile_id,
    overall_score            |-> Score100(analysis.overallScore),
    talk_time_ratio          |-> metrics.talkTimeRatio,
    filler_words_count       |-> metrics.fillerWordsCount,
    speaking_pace_wpm        |-> metrics.speakingPaceWpm,
    sentiment_score          |-> metrics.sentimentScore,
    objection_handling_score |-> SubScore100(Field(analysis, "objectionHandling")),
    closing_score            |-> SubScore100(Field(analysis, "closingEffectiveness")) ]

\* Lines 262-279: the session row takes the analysis; a thrown error ends the
\* save (lines 338-341) and the response follows.
AnalyzeUpdateSession(r) ==
  LET call == req[r].areq IN
  /\ req[r].apc = "a_update"
  /\ \E o \in CallOutcomes :
       /\ Count(o)
       /\ CASE o = "throw" ->
                 /\ Set(r, SaveThrew(r, "session"))
                 /\ UNCHANGED sessions
            [] o = "error" ->
                 /\ Set(r, SaveFailed(r, "session", "a_fetchSession"))
                 /\ UNCHANGED sessions
            [] OTHER ->
                 /\ sessions' = UpdateSession(sessions, call.sessionId,
                                              AnalyzedFields(call, req[r].analysis))
                 /\ Set(r, [apc |-> "a_fetchSession", awrote |-> sessions' # sessions])
  /\ UNCHANGED <<browser, lib, env, subscriptions, usage, audit_logs, analysis_results, session_analytics>>

\* Lines 282-290: profile_id and company_id of the session, for the analytics row.
AnalyzeFetchSession(r) ==
  /\ req[r].apc = "a_fetchSession"
  /\ \E o \in CallOutcomes :
       /\ Count(o)
       /\ CASE o = "throw" -> Set(r, SaveThrew(r, "fetch"))
            [] o = "error" -> Set(r, SaveFailed(r, "fetch", "a_upsertAnalysis"))
            [] OTHER -> Set(r, [apc |-> "a_upsertAnalysis",
                                sessionData |-> SelectSession(sessions, req[r].areq.sessionId)])
  /\ UNCHANGED <<browser, lib, env, store>>

\* Lines 293-309: the analysis_results upsert.
AnalyzeUpsertAnalysis(r) ==
  LET call == req[r].areq IN
  /\ req[r].apc = "a_upsertAnalysis"
  /\ \E o \in CallOutcomes :
       /\ Count(o)
       /\ CASE o = "throw" ->
                 /\ Set(r, SaveThrew(r, "analysis"))
                 /\ UNCHANGED analysis_results
            [] o = "error" \/ (o = "ok" /\ ~ForeignKeyOk(sessions, call.sessionId.val)) ->
                 /\ Set(r, SaveFailed(r, "analysis", "a_upsertMetrics"))
                 /\ UNCHANGED analysis_results
            [] OTHER ->
                 /\ analysis_results' = Upsert(analysis_results,
                                               AnalysisRow(call, req[r].analysis))
                 /\ Set(r, [apc |-> "a_upsertMetrics", awrote |-> TRUE])
  /\ UNCHANGED <<browser, lib, env, sessions, subscriptions, usage, audit_logs, session_analytics>>

\* Lines 312-348: the session_analytics upsert, and the response.
AnalyzeUpsertMetrics(r) ==
  LET call == req[r].areq IN
  /\ req[r].apc = "a_upsertMetrics"
  /\ \E o \in CallOutcomes :
       /\ Count(o)
       /\ CASE o = "throw" ->
                 /\ Set(r, SaveThrew(r, "metrics"))
                 /\ UNCHANGED session_analytics
            [] o = "error" \/ (o = "ok" /\ ~ForeignKeyOk(sessions, call.sessionId.val)) ->
                 /\ Set(r, Merge(Reply(r, RealResponse(r)),
                                 [afailed |-> req[r].afailed \cup {"metrics"}]))
                 /\ UNCHANGED session_analytics
            [] OTHER ->
                 /\ session_analytics' =
                      Upsert(session_analytics,
                             AnalyticsRow(call, req[r].analysis, req[r].metrics,
                                          req[r].sessionData))
                 /\ Set(r, Merge(Reply(r, RealResponse(r)), [awrote |-> TRUE]))
  /\ UNCHANGED <<browser, lib, env, sessions, subscriptions, usage, audit_logs, analysis_results>>

-----------------------------------------------------------------------------
(* get-session: src/frontend/app/api/session/[id]/route.ts.                 *)

ConvPrefix == <<"c","o","n","v","_">>
ConvId == <<"c","o","n","v","_","1">>

\* lib/session-utils is not among the sources: conversation ids of the
\* third-party voice platform carry the prefix conv_.
isElevenLabsSession(sessionId) == StartsWith(sessionId, ConvPrefix)

\* GET /api/session/[id]: the id of the path and the authorization header.
GetRequests ==
  [ sessionId  : {S1, S9, DemoId, TempId, ConvId},
    authHeader : {"", "Bearer tokA", "Bearer tokB", "Bearer bad"} ]

ReceiveGet(r, requests) ==
  /\ req[r].kind = "none"
  /\ \A q \in Slots : q < r => req[q].kind # "none"
  /\ \E http \in requests :
       Set(r, [kind |-> "get", pc |-> "g_begin", greq |-> http,
               afterDone |-> { q \in Slots : req[q].pc = "done" }])
  /\ UNCHANGED <<browser, lib, env, store, failuresLeft>>

GetDone(r, response) == Set(r, [pc |-> "done", resp |-> response])

\* Lines 209-215: the catch.
GetError == Json(500, [error |-> "errorMessage"])

\* Lines 41-45.
DemoGetResponse ==
  Json(200, [session |-> Null, isDemo |-> TRUE,
             message |-> "Demo session - using localStorage data"])

\* Lines 35-63 and 105-108: the demo and conversation ids, the header.
\* process.env.ELEVENLABS_API_KEY is read by this handler only: set or not.
GetBegin(r) ==
  LET call == req[r].greq IN
  /\ req[r].pc = "g_begin"
  /\ IF StartsWith(call.sessionId, DemoPrefix)
       THEN GetDone(r, DemoGetResponse)
     ELSE IF isElevenLabsSession(call.sessionId)
       THEN \E configured \in BOOLEAN :
              IF configured
                THEN Set(r, [pc |-> "g_eleven"])
                ELSE GetDone(r, Json(503, [error |-> "ElevenLabs not configured"]))
     ELSE IF call.authHeader = ""
       THEN GetDone(r, Json(401, [error |-> "Authorization required"]))
     ELSE Set(r, [pc |-> "g_getUser"])
  /\ UNCHANGED <<browser, lib, env, store, failuresLeft>>

\* What the conversations API can answer: a conversation, or no success
\* (a status that is not ok, a network error: fetchElevenLabsSession throws).
ElevenLabsConversations ==
  { [ conversation_id |-> ConvId, status |-> "done", call_duration_secs |-> Num(75),
      call_summary_title |-> Str(<<"C","a","l","l">>),
      transcript |-> Arr(TranscriptA),
      transcript_summary |-> Str(<<"o","k">>),
      start_time_unix_secs |-> Num(1700), end_time_unix_secs |-> Num(1775) ],
    [ conversation_id |-> ConvId, status |-> "processing", call_duration_secs |-> Undefined,
      call_summary_title |-> Undefined, transcript |-> Undefined,
      transcript_summary |-> Undefined,
      start_time_unix_secs |-> Num(1800), end_time_unix_secs |-> Undefined ] }

\* new Date(secs * 1000).toISOString(): the instant, in milliseconds.
ISOString(secs) == [iso |-> secs.val * 1000]

\* Lines 69-94, with every conversation answered as completed.
ElevenLabsResponseAlwaysCompleted(data) ==
  Json(200,
    [ session |->
        [ id               |-> data.conversation_id,
          title            |-> OrElse(data.call_summary_title, DefaultSessionType),
          status           |-> "completed",
          duration         |-> OrElse(data.call_duration_secs, Num(0)),
          transcript       |-> OrElse(data.transcript, Arr(<<>>)),
          overallScore     |-> Null,
          feedbackSummary  |-> OrElse(data.transcript_summary, Null),
          createdAt        |-> ISOString(data.start_time_unix_secs),
          endedAt          |-> IF Falsy(data.end_time_unix_secs) THEN Null
                               ELSE ISOString(data.end_time_unix_secs),
          analyzedAt       |-> Null,
          processingStatus |-> "completed",
          profile          |-> Null,
          detailedAnalysis |-> Null,
          analysisMetadata |-> Null,
          metrics          |-> Null,
          isElevenLabs     |-> TRUE ],
      analysis |-> Null, metrics |-> Null, isDemo |-> FALSE, isElevenLabs |-> TRUE ])

\* Lines 69-94.
ElevenLabsResponse(data) ==
  Json(200,
    [ session |->
        [ id               |-> data.conversation_id,
          title            |-> OrElse(data.call_summary_title, DefaultSessionType),
          status           |-> IF data.status = "done" THEN "completed" ELSE data.status,
          duration         |-> OrElse(data.call_duration_secs, Num(0)),
          transcript       |-> OrElse(data.transcript, Arr(<<>>)),
          overallScore     |-> Null,
          feedbackSummary  |-> OrElse(data.transcript_summary, Null),
          createdAt        |-> ISOString(data.start_time_unix_secs),
          endedAt          |-> IF Falsy(data.end_time_unix_secs) THEN Null
                               ELSE ISOString(data.end_time_unix_secs),
          analyzedAt       |-> Null,
          processingStatus |-> "completed",
          profile          |-> Null,
          detailedAnalysis |-> Null,
          analysisMetadata |-> Null,
          metrics          |-> Null,
          isElevenLabs     |-> TRUE ],
      analysis |-> Null, metrics |-> Null, isDemo |-> FALSE, isElevenLabs |-> TRUE ])

\* Lines 65-101: the conversation is fetched from the voice platform.
\* elevenlabsData keeps what the fetch gave: a conversation, or nothing.
GetElevenLabs(r) ==
  /\ req[r].pc = "g_eleven"
  /\ \/ \E data \in ElevenLabsConversations :
          Set(r, [pc |-> "done", resp |-> ElevenLabsResponse(data),
                  elevenlabsData |-> [ok |-> TRUE, data |-> data]])
     \/ Set(r, [pc |-> "done",
                resp |-> Json(404, [error |-> "ElevenLabs session not found or unavailable"]),
                elevenlabsData |-> [ok |-> FALSE]])
  /\ UNCHANGED <<browser, lib, env, store, failuresLeft>>

\* Lines 110-114: supabase.auth.getUser(token).
GetGetUser(r) ==
  /\ req[r].pc = "g_getUser"
  /\ \E o \in CallOutcomes :
       /\ Count(o)
       /\ LET user == AuthUser(req[r].greq.authHeader) IN
          CASE o = "throw" -> GetDone(r, GetError)
            [] o = "error" \/ (o = "ok" /\ user = "") ->
                 GetDone(r, Json(401, [error |-> "Invalid authorization token"]))
            [] OTHER -> Set(r, [pc |-> "g_profile", user |-> user])
  /\ UNCHANGED <<browser, lib, env, store>>

\* Lines 117-125: the caller's profile.
GetGetProfile(r) ==
  /\ req[r].pc = "g_profile"
  /\ \E o \in CallOutcomes :
       /\ Count(o)
       /\ LET profile == ProfileOfUser(req[r].user) IN
          CASE o = "throw" -> GetDone(r, GetError)
            [] o = "error" \/ (o = "ok" /\ profile = "") ->
                 GetDone(r, Json(404, [error |-> "User profile not found"]))
            [] OTHER -> Set(r, [pc |-> "g_session", profile |-> profile])
  /\ UNCHANGED <<browser, lib, env, store>>

\* A session lookup that tells a session of another owner from a missing one.
GetGetSessionForbidden(r) ==
  /\ req[r].pc = "g_session"
  /\ \E o \in CallOutcomes :
       /\ Count(o)
       /\ LET row == SelectSession(sessions, Str(req[r].greq.sessionId)) IN
          CASE o = "throw" -> GetDone(r, GetError)
            [] o # "throw" /\ (o = "error" \/ row = Null) ->
                 GetDone(r, Json(404, [error |-> "Database session not found or access denied"]))
            [] o = "ok" /\ row # Null /\ row.profile_id # req[r].profile ->
                 GetDone(r, Json(403, [error |-> "Access denied"]))
            [] OTHER -> Set(r, [pc |-> "g_analysis", session |-> row])
  /\ UNCHANGED <<browser, lib, env, store>>

\* Lines 128-148: the session of this id and this owner.
GetGetSession(r) ==
  /\ req[r].pc = "g_session"
  /\ \E o \in CallOutcomes :
       /\ Count(o)
       /\ LET row == SelectSession(sessions, Str(req[r].greq.sessionId))
              session == IF o = "ok" /\ row # Null /\ row.profile_id = req[r].profile
                           THEN row ELSE Null
          IN
          CASE o = "throw" -> GetDone(r, GetError)
            [] o # "throw" /\ session = Null ->
                 GetDone(r, Json(404, [error |-> "Database session not found or access denied"]))
            [] OTHER -> Set(r, [pc |-> "g_analysis", session |-> session])
  /\ UNCHANGED <<browser, lib, env, store>>

\* .eq('session_id', id).single(): the row when there is exactly one.
SingleRow(table, sid) ==
  IF RowCount(table, sid) = 1 THEN CHOOSE row \in RowsFor(table, sid) : TRUE ELSE Null

\* Lines 151-155: the analysis_results row, when there is one.
GetSelectAnalysis(r) ==
  /\ req[r].pc = "g_analysis"
  /\ \E o \in CallOutcomes :
       /\ Count(o)
       /\ CASE o = "throw" -> GetDone(r, GetError)
            [] o = "error" -> Set(r, [pc |-> "g_metrics", analysisResult |-> Null])
            [] OTHER -> Set(r, [pc |-> "g_metrics",
                                analysisResult |->
                                  SingleRow(analysis_results, req[r].greq.sessionId)])
  /\ UNCHANGED <<browser, lib, env, store>>

\* Lines 165-207.
GetResponse(id, session, analysisResult, sessionMetrics) ==
  LET results == IF analysisResult = Null THEN Null ELSE analysisResult.results
      metrics == IF sessionMetrics = Null THEN Null
                 ELSE [ talkTimeRatio          |-> sessionMetrics.talk_time_ratio,
                        fillerWordsCount       |-> sessionMetrics.filler_words_count,
                        speakingPaceWpm        |-> sessionMetrics.speaking_pace_wpm,
                        sentimentScore         |-> sessionMetrics.sentiment_score,
                        overallScore           |-> sessionMetrics.overall_score,
                        objectionHandlingScore |-> sessionMetrics.objection_handling_score,
                        closingScore           |-> sessionMetrics.closing_score ]
  IN
  Json(200,
    [ session |->
        [ id               |-> id,
          title            |-> OrElse(session.session_type, DefaultSessionType),
          status           |-> session.status,
          duration         |-> OrElse(session.duration_seconds, Num(0)),
          transcript       |-> session.transcript,
          overallScore     |-> session.overall_score,
          feedbackSummary  |-> session.feedback_summary,
          processingStatus |-> session.processing_status,
          detailedAnalysis |-> results,
          analysisMetadata |-> IF analysisResult = Null THEN Null
                               ELSE [ analysisType |-> analysisResult.analysis_type,
                                      provider     |-> analysisResult.provider ],
          metrics          |-> metrics ],
      analysis |-> results, metrics |-> metrics, isDemo |-> FALSE ])

\* Lines 157-207: the session_analytics row, when there is one, and the response.
GetSelectMetrics(r) ==
  LET id == req[r].greq.sessionId IN
  /\ req[r].pc = "g_metrics"
  /\ \E o \in CallOutcomes :
       /\ Count(o)
       /\ CASE o = "throw" -> GetDone(r, GetError)
            [] o = "error" ->
                 GetDone(r, GetResponse(id, req[r].session, req[r].analysisResult, Null))
            [] OTHER ->
                 GetDone(r, GetResponse(id, req[r].session, req[r].analysisResult,
                                        SingleRow(session_analytics, id)))
  /\ UNCHANGED <<browser, lib, env, store>>

\* One step of the get-session handler running in slot r.
GetStep(r) ==
  \/ GetBegin(r)
  \/ GetElevenLabs(r)
  \/ GetGetUser(r)
  \/ GetGetProfile(r)
  \/ GetGetSession(r)
  \/ GetSelectAnalysis(r)
  \/ GetSelectMetrics(r)

-----------------------------------------------------------------------------

\* One step of the handler (or handlers) running in slot r.
Step(r) ==
  \/ EndBegin(r)
  \/ EndGetUser(r)
  \/ EndGetProfile(r)
  \/ EndGetSession(r)
  \/ EndUpdateSession(r)
  \/ EndSelectSubscription(r)
  \/ EndUpdateSubscription(r)
  \/ EndInsertUsage(r)
  \/ EndFetch(r)
  \/ EndAwait(r)
  \/ EndAudit(r)
  \/ AnalyzeBegin(r)
  \/ AnalyzeGetUser(r)
  \/ AnalyzeGetProfile(r)
  \/ AnalyzeGetSession(r)
  \/ AnalyzeProvider(r)
  \/ AnalyzeUpdateSession(r)
  \/ AnalyzeFetchSession(r)
  \/ AnalyzeUpsertAnalysis(r)
  \/ AnalyzeUpsertMetrics(r)

\* Up to MaxReq well-formed requests of the owner of the sessions, served one
\* after the other or overlapping in any way, with a store and a network
\* that do not fail.
Next ==
  \E r \in Slots :
    \/ ReceiveEndSession(r, CoreEndSessionRequests)
    \/ ReceiveAnalyze(r, CoreAnalyzeRequests)
    \/ Step(r)

Spec == Init(0) /\ [][Next]_vars

\* One request of any shape (every kind of body, identifier and credential),
\* with up to MaxFaults failing store or network calls.
NextAny ==
  \/ ReceiveEndSession(1, EndSessionRequests)
  \/ ReceiveAnalyze(1, AnalyzeRequests)
  \/ ReceiveGet(1, GetRequests)
  \/ Step(1)
  \/ GetStep(1)

SpecAny == Init(MaxFaults) /\ [][NextAny]_vars

-----------------------------------------------------------------------------
(* The session page: src/frontend/app/session/page.tsx.                     *)

\* Demo sessions the page creates (their ids are demo-1, demo-2, ... in the
\* order of Date.now()), ends of an earlier session, analyses that arrive.
MaxDemoSessions == 11
MaxResaves == 1
MaxAnalysed == 1

\* .slice(0, 10)
CacheSize == 10
\* .substring(0, 200)
FeedbackLength == 200
DemoDuration == 90

\* What analyze answers for a demo session: a mock analysis.
DemoAnalyses == { MockScenario(1, 5), MockScenario(2, 8) }

\* Lines 78-89: the entry of the dashboard list.  analysisData is Null when
\* the function is called without it.
formattedSession(sessionData, analysisData, timestamp) ==
  LET detailed == IF analysisData = Null THEN Undefined
                  ELSE Field(analysisData, "detailedAnalysis")
  IN
  [ id       |-> sessionData.id,
    duration |-> sessionData.duration,
    minutes  |-> MinutesUsed(sessionData.duration),
    score    |-> IF analysisData # Null /\ ~Falsy(analysisData.overallScore)
                   THEN Ratio(analysisData.overallScore.val, 10)
                   ELSE Ratio(15, 2),
    date     |-> timestamp,
    status   |-> "demo",
    feedback |-> IF Falsy(detailed) THEN Str(<<"Demo session completed successfully">>)
                 ELSE Str(SubSeq(detailed.val, 1,
                                 IF Len(detailed.val) < FeedbackLength
                                   THEN Len(detailed.val) ELSE FeedbackLength)) ]

\* A save that puts the new entry first and keeps every older entry.
saveDemoSessionKeepingOld(existingDemoSessions, sessionData, analysisData, timestamp) ==
  LET all == <<formattedSession(sessionData, analysisData, timestamp)>>
               \o existingDemoSessions
  IN  SubSeq(all, 1, IF Len(all) < CacheSize THEN Len(all) ELSE CacheSize)

\* Lines 92-96: the new entry first, then the entries of other ids, ten at most.
saveDemoSessionToStorage(existingDemoSessions, sessionData, analysisData, timestamp) ==
  LET all == <<formattedSession(sessionData, analysisData, timestamp)>>
               \o existingDemoSessions
      first(i) == \A j \in 1..(i - 1) : all[j].id # all[i].id
      unique == SelectSeq([i \in 1..Len(all) |-> [at |-> i, session |-> all[i]]],
                          LAMBDA e : first(e.at))
      updatedSessions == [i \in 1..Len(unique) |-> unique[i].session]
  IN  SubSeq(updatedSessions, 1,
             IF Len(updatedSessions) < CacheSize THEN Len(updatedSessions) ELSE CacheSize)

\* Lines 107-183: a demo session ends (the page's new session, or an earlier
\* one that is still open); end-session answered ok; the session is saved
\* without analysis and the analyze call is sent.
HandleSessionEnd ==
  /\ browser.awaiting = 0
  /\ \E id \in 1..(browser.issued + 1) :
       /\ id <= MaxDemoSessions
       /\ id <= browser.issued => browser.resaves < MaxResaves
       /\ browser' =
            [browser EXCEPT
               !.issued = IF id > @ THEN id ELSE @,
               !.resaves = IF id <= browser.issued THEN @ + 1 ELSE @,
               !.now = @ + 1,
               !.awaiting = id,
               !.demoSessions =
                  saveDemoSessionToStorage(@, [id |-> id, duration |-> DemoDuration],
                                           Null, browser.now + 1)]
  /\ UNCHANGED <<lib, env, store, req, failuresLeft>>

\* Lines 184-236: the answer of analyze arrives.  When it is ok the analysis
\* is stored and the session saved again with it; when it is not, or the
\* fetch throws, the session is saved again without.
HandleAnalysisResponse ==
  LET id == browser.awaiting
      sessionData == [id |-> id, duration |-> DemoDuration]
  IN
  /\ id # 0
  /\ \/ \E analysis \in DemoAnalyses :
          /\ browser.analysed < MaxAnalysed
          /\ browser' =
               [browser EXCEPT
                  !.awaiting = 0,
                  !.analysed = @ + 1,
                  !.now = @ + 1,
                  !.analyses = (id :> analysis) @@ @,
                  !.demoSessions =
                     saveDemoSessionToStorage(@, sessionData, analysis, browser.now + 1)]
     \/ browser' =
          [browser EXCEPT
             !.awaiting = 0,
             !.now = @ + 1,
             !.demoSessions =
                saveDemoSessionToStorage(@, sessionData, Null, browser.now + 1)]
  /\ UNCHANGED <<lib, env, store, req, failuresLeft>>

NextPage == HandleSessionEnd \/ HandleAnalysisResponse

\* A browser that ends demo sessions, one at a time; the server is idle.
InitPage ==
  /\ ServerStart({[SERVER_SECRET |-> "", OPENAI_API_KEY |-> FALSE]}, 0)
  /\ browser = EmptyBrowser
  /\ lib = NoCall

SpecPage == InitPage /\ [][NextPage]_vars

-----------------------------------------------------------------------------
(* The library functions called on their own: src/unnamed/part_000 and      *)
(* src/frontend/lib/analysis-utils.ts.  lib is one caller: the function it  *)
(* calls, its arguments, and the values returned so far.                    *)

MaxHundredths == 1000
MaxMessages == 2
MaxMore == 1
MaxSpeakers == 3

\* The calls made: every function with arguments from small sets.  The
\* statuses are the six known ones and four others; the scores are the
\* absent values and the decimals 0.00, 0.01, ... up to MaxHundredths / 100;
\* the transcripts differ in the speaker names (up to MaxSpeakers messages)
\* or in the texts (up to MaxMessages messages, and MaxMore messages more).
LibCalls ==
  LET SeqsUpTo(S, n) == UNION { [1..k -> S] : k \in 0..n }
      statuses == { "analyzed", "completed", "active", "processing", "demo", "archived",
                    "unknown-garbage", "Completed", "ended", "" }
      scores   == {Undefined, Null, NaN} \cup { Hundredths(n) : n \in 0..MaxHundredths }
      speakers ==
        { <<"u","s","e","r">>,
          <<"C","l","i","e","n","t">>,
          <<"Y","O","U">>,
          <<"a","g","e","n","t">>,
          <<"S","p","e","a","k","e","r","_","1">>,
          <<"a","i">> }
      texts    ==
        { <<>>,
          <<"U","m">>,
          <<"s","o"," ","g","o","o","d">>,
          <<"y","o","u">>,
          <<"k","n","o","w"," ","b","a","d">>,
          <<"s","u","m","m","e","r">>,
          <<"r","i","g","h","t","?","n","o">>,
          <<"l","i","k","e">>,
          <<" ","w","e","l","l"," ">>,
          <<"g","r","e","a","t"," ","i","s","s","u","e","s">> }
      SpeakerTranscripts ==
        SeqsUpTo({ [speaker |-> sp, message |-> <<"o","k">>] : sp \in speakers }, MaxSpeakers)
      TextTranscripts(n) ==
        SeqsUpTo({ [speaker |-> <<"u","s","e","r">>, message |-> t] : t \in texts }, n)
      \* Two messages of 19 and 12 words, and the five of 75 words.
      LongTranscripts ==
        { <<createMockTranscript[3], createMockTranscript[4]>>, createMockTranscript }
      durations ==
        { Undefined, Null, Num(0), Num(0 - 30), Num(1), Num(40), Num(45), Num(60),
          Num(90), Num(248), Num(300) }
  IN
  { [fn |-> "normalizeSessionStatus", dbStatus |-> d, hasAnalysis |-> h, returned |-> <<>>] :
      d \in statuses, h \in {Bool(TRUE), Bool(FALSE), Undefined} }
  \cup
  { [fn |-> "normalizeScore", score |-> sc, fromScale |-> f, toScale |-> t, returned |-> <<>>] :
      sc \in scores, f \in {10, 100}, t \in {10, 100} }
  \cup
  { [fn |-> "calculateTalkTimeRatio", transcript |-> tr, returned |-> <<>>] :
      tr \in SpeakerTranscripts }
  \cup
  { [fn |-> "countFillerWords", transcript |-> tr, more |-> mo, returned |-> <<>>] :
      tr \in TextTranscripts(MaxMessages), mo \in TextTranscripts(MaxMore) }
  \cup
  { [fn |-> "calculateSentimentScore", transcript |-> tr, returned |-> <<>>] :
      tr \in TextTranscripts(MaxMessages) }
  \cup
  { [fn |-> "calculateSpeakingPace", transcript |-> tr, durationSeconds |-> d,
     returned |-> <<>>] :
      tr \in TextTranscripts(MaxMessages) \cup LongTranscripts, d \in durations }
  \cup
  { [fn |-> "generateAnalysisMetrics", transcript |-> tr, durationSeconds |-> d,
     returned |-> <<>>] :
      tr \in TextTranscripts(MaxMessages) \cup SpeakerTranscripts \cup LongTranscripts,
      d \in durations }

Return(value) ==
  /\ lib' = [lib EXCEPT !.returned = Append(@, value)]
  /\ UNCHANGED <<browser, env, store, req, failuresLeft>>

CallNormalizeSessionStatus ==
  /\ lib.fn = "normalizeSessionStatus"
  /\ lib.returned = <<>>
  /\ Return(normalizeSessionStatus(lib.dbStatus, lib.hasAnalysis))

\* The caller converts the score, and then converts the result back.
CallNormalizeScore ==
  /\ lib.fn = "normalizeScore"
  /\ \/ /\ lib.returned = <<>>
        /\ Return(normalizeScore(lib.score, lib.fromScale, lib.toScale))
     \/ /\ Len(lib.returned) = 1
        /\ Return(normalizeScore(lib.returned[1], lib.toScale, lib.fromScale))

CallCalculateTalkTimeRatio ==
  /\ lib.fn = "calculateTalkTimeRatio"
  /\ lib.returned = <<>>
  /\ Return(calculateTalkTimeRatio(lib.transcript))

\* The caller counts in the transcript, and then in the transcript with more
\* messages after it.
CallCountFillerWords ==
  /\ lib.fn = "countFillerWords"
  /\ \/ /\ lib.returned = <<>>
        /\ Return(countFillerWords(lib.transcript))
     \/ /\ Len(lib.returned) = 1
        /\ Return(countFillerWords(lib.transcript \o lib.more))

CallCalculateSentimentScore ==
  /\ lib.fn = "calculateSentimentScore"
  /\ lib.returned = <<>>
  /\ Return(calculateSentimentScore(lib.transcript))

CallCalculateSpeakingPace ==
  /\ lib.fn = "calculateSpeakingPace"
  /\ lib.returned = <<>>
  /\ Return(calculateSpeakingPace(lib.transcript, lib.durationSeconds))

\* Variant: the filler count goes on from a counter that outlives the call.
CallGenerateAnalysisMetricsCounting ==
  /\ lib.fn = "generateAnalysisMetrics"
  /\ Len(lib.returned) < 2
  /\ Return([generateAnalysisMetrics(lib.transcript, lib.durationSeconds)
               EXCEPT !.fillerWordsCount = @ + Len(lib.returned)])

\* The caller calls twice with the same arguments.
CallGenerateAnalysisMetrics ==
  /\ lib.fn = "generateAnalysisMetrics"
  /\ Len(lib.returned) < 2
  /\ Return(generateAnalysisMetrics(lib.transcript, lib.durationSeconds))

NextLib ==
  \/ CallNormalizeSessionStatus
  \/ CallNormalizeScore
  \/ CallCalculateTalkTimeRatio
  \/ CallCountFillerWords
  \/ CallCalculateSentimentScore
  \/ CallCalculateSpeakingPace
  \/ CallGenerateAnalysisMetrics

InitLib ==
  /\ ServerStart({[SERVER_SECRET |-> "", OPENAI_API_KEY |-> FALSE]}, 0)
  /\ browser = EmptyBrowser
  /\ lib \in LibCalls

SpecLib == InitLib /\ [][NextLib]_vars

-----------------------------------------------------------------------------
(* Properties.                                                              *)

SessionIds == {S1, S2}

\* Slot r has served an analyze request for session sid with the provider's
\* analysis (isDemo false).
AnalyzedBy(r, sid) ==
  /\ req[r].kind = "analyze"
  /\ req[r].pc = "done"
  /\ req[r].areq.sessionId = Str(sid)
  /\ req[r].resp.status = 200
  /\ req[r].resp.body.isDemo = FALSE

\* Slot q was served after slot p had answered, and no other request
\* overlaps or follows it.
InSuccession(p, q) ==
  /\ p # q
  /\ p \in req[q].afterDone
  /\ \A k \in Slots \ {q} : req[k].kind = "none" \/ k \in req[q].afterDone

C2_OneRowPerSession ==
  \A sid \in SessionIds :
    /\ RowCount(analysis_results, sid) <= 1
    /\ RowCount(session_analytics, sid) <= 1

\* Two overlapping analyze requests for one session have both written both
\* rows.
C2_Witness ==
  \E p, q \in Slots :
    /\ p # q
    /\ AnalyzedBy(p, S1) /\ AnalyzedBy(q, S1)
    /\ req[p].awrote /\ req[q].awrote
    /\ p \notin req[q].afterDone
    /\ RowCount(analysis_results, S1) = 1
    /\ RowCount(session_analytics, S1) = 1

\* The end-session requests for session sid that have added their minutes to
\* the owner's subscription.
ChargedFor(sid) ==
  { r \in Slots : /\ req[r].kind = "end"
                  /\ req[r].ereq.session_id = Str(sid)
                  /\ req[r].charged }

\* C3: for end-session requests for the same Persisted session id, however
\* their store reads and writes interleave, the session is charged at most
\* once: minutes_used of the subscription is increased by at most one of
\* them, and at most one usage record is inserted for the session.
C3_ChargedAtMostOnce ==
  \A sid \in SessionIds :
    /\ Cardinality(ChargedFor(sid)) <= 1
    /\ RowCount(usage, sid) <= 1

\* C4: once end-session has validated the request, authorized the caller and
\* updated the session, no outcome of the analyze call it triggers (success,
\* a non-success status, mock output, a thrown fetch) ends it in failure:
\* from the trigger the handler goes on to the audit log and the response,
\* and its response is a success unless the audit insert itself fails.
C4_AnalysisNeverFailsEndSession ==
  [][\A r \in Slots :
       /\ (req[r].kind = "end" /\ req[r].pc \in {"e_fetch", "e_await"}) =>
             \/ req'[r].pc \in {"e_fetch", "e_await", "e_audit"}
             \/ req'[r].pc = "done" /\ req'[r].resp.status = 200
       /\ (req[r].kind = "end" /\ req[r].pc = "e_audit" /\ req'[r].pc = "done"
             /\ req'[r].resp.status # 200) =>
             failuresLeft' < failuresLeft]_vars

\* An end-session request with a transcript has answered success although
\* the analysis it triggered did not succeed.
C4_Witness ==
  \E r \in Slots :
    /\ req[r].kind = "end" /\ req[r].pc = "done"
    /\ req[r].ewrote
    /\ req[r].resp.status = 200
    /\ req[r].resp.body.session.transcript_stored
    /\ ~req[r].resp.body.session.analysis_triggered

\* The metrics that do not depend on the duration.
TranscriptMetrics(metrics) ==
  [ talkTimeRatio    |-> metrics.talkTimeRatio,
    fillerWordsCount |-> metrics.fillerWordsCount,
    sentimentScore   |-> metrics.sentimentScore ]

\* The analyze handler in slot r has answered.
Answered(r) == req[r].apc = "a_done"

\* C5: whenever the provider fails for an authorized request with a
\* meaningful real transcript (it throws, returns no content, or returns
\* content that is unparseable or lacks a mandatory field), analyze answers
\* success with a mock analysis and the metrics of that real transcript.
C5_ProviderFailureKeepsRealMetrics ==
  \A r \in Slots :
    (Answered(r) /\ req[r].raised \in {"provider", "empty", "parse"}) =>
      LET body == req[r].aresp.body IN
      /\ req[r].aresp.status = 200
      /\ body.isDemo
      /\ body.analysis \in generateMockAnalysis
      /\ TranscriptMetrics(body.metrics) =
            TranscriptMetrics(generateAnalysisMetrics(
                                TranscriptArray(req[r].areq.transcript), Num(300)))

\* Every analyze response is an authorization error or a success with an
\* analysis.
AuthErrorOrAnalysis(r) ==
  \/ req[r].aresp.status \in {401, 404}
  \/ req[r].aresp.status = 200 /\ "analysis" \in DOMAIN req[r].aresp.body

\* The response of the outermost catch: a mock analysis, the metrics of the
\* mock transcript, isDemo true.
FullyMock(r) ==
  LET body == req[r].aresp.body IN
  /\ req[r].aresp.status = 200
  /\ body.analysis \in generateMockAnalysis
  /\ body.metrics = MockMetrics
  /\ body.isDemo

C7_SuccessCarriesAllThree ==
  \A r \in Slots :
    (Answered(r) /\ req[r].aresp.status = 200) =>
      {"analysis", "metrics", "isDemo"} \subseteq DOMAIN req[r].aresp.body

\* The session row of the request in slot r took the analysis.
SessionAnalyzed(r) ==
  LET session == SelectSession(sessions, req[r].areq.sessionId) IN
  session # Null /\ session.status = "analyzed"

\* C8: when a call of the persist step fails (the session update, the
\* analysis_results upsert, the session_analytics upsert, by an error or by
\* an exception of the store client) after a valid provider analysis was
\* obtained, analyze still answers success with that provider analysis, the
\* metrics of the real transcript and isDemo false, and the failed write is
\* not made again: what it would have written is not in the store.
C8_PersistFailureKeepsAnalysis ==
  \A r \in Slots :
    (Answered(r) /\ req[r].analysis # Null /\ req[r].afailed # {}) =>
      LET call == req[r].areq
          body == req[r].aresp.body
      IN
      /\ req[r].aresp.status = 200
      /\ body.analysis = finalAnalysis(call, req[r].analysis)
      /\ body.metrics = generateAnalysisMetrics(TranscriptArray(call.transcript),
                                                OrElse(call.duration, Num(0)))
      /\ body.isDemo = FALSE
      /\ "session" \in req[r].afailed => ~SessionAnalyzed(r)
      /\ "analysis" \in req[r].afailed => RowCount(analysis_results, call.sessionId.val) = 0
      /\ "metrics" \in req[r].afailed => RowCount(session_analytics, call.sessionId.val) = 0

\* The analysis_results upsert for a session of the store failed, and the
\* answer carries the provider's analysis.
C8_Witness ==
  \E r \in Slots :
    /\ Answered(r) /\ req[r].analysis # Null
    /\ req[r].afailed = {"analysis"}
    /\ req[r].areq.sessionId = Str(S1)
    /\ RowCount(analysis_results, S1) = 0
    /\ RowCount(session_analytics, S1) = 1
    /\ req[r].aresp.body.analysis = finalAnalysis(req[r].areq, ProviderDocFull)

\* C9: for every session id that isDemoSession classifies as Local, analyze
\* called with no credential of any kind succeeds, never Unauthorized.
C9_LocalNeedsNoCredential ==
  \A r \in Slots :
    ( /\ req[r].kind = "analyze" /\ req[r].pc = "done"
      /\ req[r].areq.bodyOk
      /\ IsString(req[r].areq.sessionId)
      /\ isDemoSession(req[r].areq.sessionId, "")
      /\ req[r].areq.authHeader = "" /\ req[r].areq.serverSecret = "" ) =>
      req[r].resp.status = 200

\* No table of the store differs from what it was before the request.
StoreUntouched ==
  /\ sessions = InitialSessions
  /\ subscriptions = InitialSubscriptions
  /\ usage = EmptyBag
  /\ audit_logs = EmptyBag
  /\ analysis_results = EmptyBag
  /\ session_analytics = EmptyBag

\* C10: a request to end-session or analyze that is answered 401 or 404
\* (credential missing or invalid, owner mismatch) is rejected before any
\* store mutation and before any provider call: the session,
\* analysis_results, session_analytics, subscription, usage and audit
\* records are what they were.
C10_RejectedBeforeAnyEffect ==
  \A r \in Slots :
    /\ (req[r].pc = "done" /\ req[r].resp.status \in {401, 404}) =>
          /\ StoreUntouched
          /\ ~req[r].ewrote /\ ~req[r].awrote /\ ~req[r].acalled
    /\ (Answered(r) /\ req[r].aresp.status \in {401, 404}) =>
          ~req[r].awrote /\ ~req[r].acalled

\* An end-session request for a session of another profile was answered 404.
C10_Witness ==
  \E r \in Slots :
    /\ req[r].kind = "end" /\ req[r].pc = "done"
    /\ req[r].ereq.session_id = Str(S1)
    /\ req[r].profile = "pB"
    /\ req[r].resp.status = 404
    /\ StoreUntouched

\* The session of this id is missing, or it is the session of another profile.
NotOwnedBy(sessionId, profile) ==
  LET row == SelectSession(sessions, sessionId) IN
  row = Null \/ row.profile_id # profile

\* The request of slot r passed the credential checks with a bearer token
\* (the caller has a user and a profile), named a session the caller does
\* not own, was answered, and no call to the store failed on the way.
DeniedLookup(r, kind, sessionId, profile) ==
  /\ req[r].kind = kind /\ req[r].pc = "done"
  /\ failuresLeft = MaxFaults
  /\ profile # ""
  /\ NotOwnedBy(sessionId, profile)

\* C11: for an authenticated caller, end-session, analyze and get-session
\* each answer a request for a session the caller does not own with one
\* response (status and body) that is the same whether the session id does
\* not exist or names the session of another owner.
C11_MissingAndForeignAnswerAlike ==
  \A r \in Slots :
    /\ DeniedLookup(r, "end", req[r].ereq.session_id, req[r].profile) =>
          req[r].resp = Json(404, [error |-> "Session not found or access denied"])
    /\ DeniedLookup(r, "analyze", req[r].areq.sessionId, req[r].aprofile) =>
          req[r].resp = Json(404, [error |-> "Session not found or access denied"])
    /\ DeniedLookup(r, "get", Str(req[r].greq.sessionId), req[r].profile) =>
          req[r].resp = Json(404, [error |-> "Database session not found or access denied"])

\* A get-session request of profile pB for the session s1 of profile pA was
\* answered as a request for a missing session is.
C11_Witness ==
  \E r \in Slots :
    /\ DeniedLookup(r, "get", Str(req[r].greq.sessionId), req[r].profile)
    /\ req[r].greq.sessionId = S1
    /\ SelectSession(sessions, Str(S1)) # Null
    /\ req[r].profile = "pB"
    /\ req[r].resp.status = 404

\* The end-session request of slot r was rejected: an error response, no
\* record of the store changed, no analysis triggered.
RejectedWithoutEffect(r) ==
  /\ req[r].resp.status >= 400
  /\ StoreUntouched
  /\ ~req[r].ewrote /\ ~req[r].acalled /\ ~req[r].analysisTriggered

InvalidSessionId(data) == data.session_id = Undefined \/ ~IsString(data.session_id)

InvalidDuration(data) ==
  \/ data.duration_seconds = Undefined
  \/ ~IsNumber(data.duration_seconds)
  \/ data.duration_seconds.val <= 0

\* C12: an end-session request with a missing or non-string session id, a
\* missing, non-numeric or non-positive duration, or a transcript that is
\* present but not an array is rejected with an error response; no store
\* record is changed and no analysis is triggered.
C12_MalformedEndSessionRejected ==
  \A r \in Slots :
    ( /\ req[r].kind = "end" /\ req[r].pc = "done"
      /\ req[r].ereq.bodyOk
      /\ \/ InvalidSessionId(req[r].ereq)
         \/ InvalidDuration(req[r].ereq)
         \/ req[r].ereq.transcript # Undefined /\ ~IsArray(req[r].ereq.transcript) ) =>
      RejectedWithoutEffect(r)

\* The same for the transcripts that validateEndSession does reject: present,
\* not an array, and not the empty string.
C12_TruthyMalformedEndSessionRejected ==
  \A r \in Slots :
    ( /\ req[r].kind = "end" /\ req[r].pc = "done"
      /\ req[r].ereq.bodyOk
      /\ \/ InvalidSessionId(req[r].ereq)
         \/ InvalidDuration(req[r].ereq)
         \/ ~Falsy(req[r].ereq.transcript) /\ ~IsArray(req[r].ereq.transcript) ) =>
      RejectedWithoutEffect(r)

\* The place of a status in the order active < completed < analyzed.
StatusRank(status) ==
  CASE status = "active" -> 0
    [] status = "completed" -> 1
    [] status = "analyzed" -> 2

\* C13: under every sequence and interleaving of end-session and analyze
\* requests, the stored status of a session never moves backward in the
\* order active < completed < analyzed.
C13_StatusNeverMovesBackward ==
  [][\A sid \in SessionIds :
       StatusRank(sessions'[sid].status) >= StatusRank(sessions[sid].status)]_vars

\* C14: a session becomes analyzed only after it has been ended (status
\* completed, its duration recorded): no request takes a session from
\* active directly to analyzed.
C14_AnalyzedOnlyAfterEnded ==
  [][\A sid \in SessionIds :
       (sessions'[sid].status = "analyzed" /\ sessions[sid].status # "analyzed") =>
          /\ sessions[sid].status = "completed"
          /\ sessions[sid].duration_seconds # Null]_vars

\* C15: once end-session has recorded the duration of a session, no later
\* request (a repeated or overlapping end-session, an analyze) changes it.
C15_RecordedDurationNeverChanges ==
  [][\A sid \in SessionIds :
       sessions[sid].duration_seconds # Null =>
          sessions'[sid].duration_seconds = sessions[sid].duration_seconds]_vars

\* C16: once a transcript is stored for a session, no later request changes
\* it: an analyze request with another transcript leaves the stored one.
C16_StoredTranscriptNeverChanges ==
  [][\A sid \in SessionIds :
       sessions[sid].transcript # Null =>
          sessions'[sid].transcript = sessions[sid].transcript]_vars

\* The end-session request of slot r updates the session row in this step.
EndsSession(r) ==
  /\ req[r].kind = "end" /\ req[r].pc = "e_update"
  /\ req'[r].pc = "e_subSelect"

\* C17: when end-session ends a session (the update of the row succeeds),
\* the row's processing status becomes analyzing if the request carried a
\* transcript (an array of messages) and completed otherwise.
C17_ProcessingStatusFollowsTranscript ==
  [][\A r \in Slots :
       EndsSession(r) =>
         LET row == sessions'[req[r].ereq.session_id.val] IN
         /\ row.status = "completed"
         /\ row.processing_status =
              IF IsArray(req[r].ereq.transcript) THEN "analyzing" ELSE "completed"]_vars

\* An end-session request with a transcript has just ended the active
\* session s1: the row is completed and its processing status is analyzing.
C17_Witness ==
  \E r \in Slots :
    /\ req[r].kind = "end" /\ req[r].pc = "e_subSelect"
    /\ req[r].session.status = "active"
    /\ req[r].ereq.session_id = Str(S1)
    /\ req[r].ereq.transcript = Arr(TranscriptA)
    /\ sessions[S1].status = "completed"
    /\ sessions[S1].processing_status = "analyzing"

\* The end-session request of slot r has ended a session: answered 200.
Ended(r) == req[r].kind = "end" /\ req[r].pc = "done" /\ req[r].resp.status = 200

\* C18: when two different sessions of one owner have been ended with
\* durations d1 and d2, by requests in sequence or overlapping, the owner's
\* minutes_used has grown by exactly ceil(d1/60) + ceil(d2/60).
C18_NoIncrementLost ==
  \A r, q \in Slots :
    ( /\ r # q /\ Ended(r) /\ Ended(q)
      /\ req[r].ereq.session_id # req[q].ereq.session_id
      /\ req[r].profile = "pA" /\ req[q].profile = "pA" ) =>
      subscriptions["pA"].minutes_used =
        InitialSubscriptions["pA"].minutes_used
          + MinutesUsed(req[r].ereq.duration_seconds.val)
          + MinutesUsed(req[q].ereq.duration_seconds.val)

\* The session id of the request served in slot r.
RequestedId(r) ==
  CASE req[r].kind = "end" -> req[r].ereq.session_id
    [] req[r].kind = "analyze" -> req[r].areq.sessionId
    [] OTHER -> Undefined

ShortTranscriptServed(r) ==
  /\ req[r].kind = "analyze" /\ req[r].pc = "done"
  /\ req[r].resp.status \notin {401, 404}
  /\ Len(TranscriptText(req[r].areq.transcript)) < MinTranscriptLength

\* C20: an analyze request whose transcript text is shorter than 20
\* characters is answered with isDemo true and a fully populated mock
\* analysis, never a null or partial one; the provider is not called and
\* nothing is persisted.
C20_ShortTranscriptGivesMock ==
  \A r \in Slots :
    ShortTranscriptServed(r) =>
      /\ req[r].resp.status = 200
      /\ req[r].resp.body.isDemo = TRUE
      /\ req[r].resp.body.analysis \in generateMockAnalysis
      /\ \A field \in requiredFields :
            ~Falsy(req[r].resp.body.analysis[field])
      /\ ~req[r].acalled /\ ~req[r].awrote
      /\ StoreUntouched

\* The owner's analyze request for s1 with a transcript text of 19
\* characters, the provider key configured, was answered by the gate: mock
\* analysis, the metrics of the mock transcript, isDemo, nothing stored.
C20_Witness ==
  \E r \in Slots :
    /\ ShortTranscriptServed(r)
    /\ env.OPENAI_API_KEY
    /\ req[r].areq.sessionId = Str(S1)
    /\ req[r].aprofile = "pA"
    /\ Len(TranscriptText(req[r].areq.transcript)) = MinTranscriptLength - 1
    /\ req[r].raised = ""
    /\ req[r].resp.body.isDemo = TRUE
    /\ req[r].resp.body.metrics = MockMetrics
    /\ StoreUntouched

optionalFields ==
  { "effectiveTechniques", "techniquesNeedingWork", "objectionHandling",
    "closingEffectiveness", "keyRecommendations", "detailedAnalysis" }

\* The value is there: not undefined, not null, not an empty text or list.
Populated(v) ==
  /\ ~Falsy(v)
  /\ (IsArray(v) => Len(v.val) > 0)

\* The analysis of a success response is whole.
WholeAnalysis(body) ==
  /\ \A field \in requiredFields : field \in DOMAIN body.analysis
  /\ body.isDemo =>
        /\ \A field \in requiredFields \cup optionalFields :
              field \in DOMAIN body.analysis /\ Populated(body.analysis[field])
        /\ IsNumber(body.analysis.overallScore)
        /\ body.analysis.overallScore.val \in 0..10

\* C21: whatever path reaches the caller, the analysis that analyze delivers
\* contains the mandatory fields overallScore, strengths and
\* areasForImprovement; and whenever it is a mock analysis every optional
\* field is populated as well and overallScore is on the 0-10 scale.
C21_DeliveredAnalysisIsWhole ==
  \A r \in Slots :
    (Answered(r) /\ req[r].aresp.status = 200) => WholeAnalysis(req[r].aresp.body)

\* The provider threw for the owner's request with a real transcript, and the
\* fallback delivered a mock analysis with every field populated.
C21_Witness ==
  \E r \in Slots :
    /\ Answered(r) /\ req[r].kind = "analyze"
    /\ req[r].areq.sessionId = Str(S1)
    /\ req[r].acalled
    /\ req[r].aresp.body.isDemo
    /\ "keyRecommendations" \in DOMAIN req[r].aresp.body.analysis
    /\ WholeAnalysis(req[r].aresp.body)

\* C22: whenever analyze persists a result, the overall_score written to
\* the session row and to the session_analytics row lies between 0 and 100
\* and is 10 times the overallScore of the analysis delivered, for every
\* provider response that analyze accepts as valid.
C22_StoredScoreOnScale100 ==
  \A r \in Slots :
    (Answered(r) /\ req[r].awrote /\ IsString(req[r].areq.sessionId)) =>
      LET delivered == req[r].aresp.body.analysis.overallScore
          sid == req[r].areq.sessionId.val
          OnScale(score) ==
            /\ IsNumber(score) /\ score.val \in 0..100
            /\ IsNumber(delivered) /\ score.val = 10 * delivered.val
      IN
      /\ sessions[sid].status = "analyzed" => OnScale(sessions[sid].overall_score)
      /\ \A row \in RowsFor(session_analytics, sid) : OnScale(row.overall_score)

\* C23: no score is rescaled twice or read on the wrong scale: the 0-10
\* score recorded for a demo session in the browser's list when its analysis
\* arrives equals the overallScore of the analysis that analyze returned,
\* which is already on the 0-10 scale.
C23_CachedScoreIsAnalysisScore ==
  [][(browser.awaiting # 0 /\ browser'.analysed > browser.analysed) =>
       /\ browser'.demoSessions[1].id = browser.awaiting
       /\ browser'.demoSessions[1].score =
            Ratio(browser'.analyses[browser.awaiting].overallScore.val, 1)]_vars

\* C24: after any sequence of saves of demo sessions the list in the
\* browser holds at most 10 entries, no two entries share an id, the most
\* recently saved session is first (the entries are in the order of their
\* saves, latest first), and a save of an id that is already present
\* replaces the older entry: the one entry of that id is the new one.
C24_CacheBoundedUniqueNewestFirst ==
  LET list == browser.demoSessions IN
  /\ Len(list) <= CacheSize
  /\ \A i, j \in 1..Len(list) : i # j => list[i].id # list[j].id
  /\ \A i, j \in 1..Len(list) : i < j => list[i].date > list[j].date
  /\ browser.now > 0 => list[1].date = browser.now
  /\ browser.awaiting # 0 => list[1].id = browser.awaiting

\* Eleven demo sessions were saved and an earlier one was ended again: the
\* list is full, the oldest entry is gone, and the session that was ended
\* again has one entry.
C24_Witness ==
  /\ browser.issued = MaxDemoSessions
  /\ browser.resaves = 1
  /\ browser.awaiting = 0
  /\ Len(browser.demoSessions) = CacheSize
  /\ \A i \in 1..CacheSize : browser.demoSessions[i].id # 1
  /\ browser.demoSessions[1].id < browser.demoSessions[2].id

\* The domain of a session id: the first rule that matches.
classify(id) ==
  IF isDemoSession(Str(id), "") THEN "Local"
  ELSE IF isElevenLabsSession(id) THEN "ThirdParty"
  ELSE "Persisted"

\* The domain in which get-session served the request of slot r, read from
\* its response.
GetDispatch(r) ==
  LET body == req[r].resp.body IN
  IF "isDemo" \in DOMAIN body /\ body.isDemo THEN "Local"
  ELSE IF \/ "isElevenLabs" \in DOMAIN body
          \/ /\ "error" \in DOMAIN body
             /\ body.error \in {"ElevenLabs not configured",
                                "ElevenLabs session not found or unavailable"}
    THEN "ThirdParty"
  ELSE "Persisted"

\* The domain in which end-session served the valid request of slot r.
EndDispatch(r) ==
  LET body == req[r].resp.body IN
  IF "session" \in DOMAIN body /\ "isDemo" \in DOMAIN body.session THEN "Local"
  ELSE "Persisted"

\* C25: every server operation dispatches a session id to the domain that
\* classify gives it (Local for the prefixes demo- and temp- and for ids
\* that contain demo; else ThirdParty for the conv_ shape; else Persisted):
\* get-session and end-session serve it in that domain, and analyze asks
\* for a credential exactly when the id is not Local.
C25_HandlersDispatchAsClassify ==
  \A r \in Slots :
    /\ (req[r].kind = "get" /\ req[r].pc = "done" /\ req[r].resp.status # 500) =>
          GetDispatch(r) = classify(req[r].greq.sessionId)
    /\ (req[r].kind = "end" /\ req[r].pc = "done" /\ req[r].ereq.bodyOk
          /\ validateEndSession(req[r].ereq) /\ req[r].resp.status # 500) =>
          EndDispatch(r) = classify(req[r].ereq.session_id.val)
    /\ (req[r].kind = "analyze" /\ req[r].pc = "done" /\ req[r].areq.bodyOk
          /\ IsString(req[r].areq.sessionId)
          /\ req[r].areq.authHeader = "" /\ req[r].areq.serverSecret = "") =>
          (req[r].resp.status = 401 <=> classify(req[r].areq.sessionId.val) # "Local")

\* The same with prefix demo- as the one rule for Local: what the handlers do.
C25_HandlersDispatchByPrefix ==
  \A r \in Slots :
    LET Domain(id) == IF StartsWith(id, DemoPrefix) THEN "Local"
                      ELSE IF isElevenLabsSession(id) THEN "ThirdParty"
                      ELSE "Persisted"
    IN
    /\ (req[r].kind = "get" /\ req[r].pc = "done" /\ req[r].resp.status # 500) =>
          GetDispatch(r) = Domain(req[r].greq.sessionId)
    /\ (req[r].kind = "end" /\ req[r].pc = "done" /\ req[r].ereq.bodyOk
          /\ validateEndSession(req[r].ereq) /\ req[r].resp.status # 500) =>
          EndDispatch(r) = Domain(req[r].ereq.session_id.val)

CanonicalStatuses ==
  { "completed", "in_progress", "demo", "processing", "active", "analyzed", "archived" }

\* C26: normalizeStatus is total and follows the table for every raw status
\* and every hasAnalysis (true, false or absent): analyzed -> completed;
\* completed -> completed if hasAnalysis, else processing; active ->
\* in_progress; processing, demo and archived -> themselves; any other
\* string -> in_progress.
C26_NormalizeStatusFollowsTable ==
  lib.fn = "normalizeSessionStatus" =>
    /\ lib.returned = <<>> => ENABLED CallNormalizeSessionStatus
    /\ lib.returned # <<>> =>
          LET out == lib.returned[1]
              raw == lib.dbStatus
          IN  /\ out \in CanonicalStatuses
              /\ raw = "analyzed" => out = "completed"
              /\ (raw = "completed" /\ lib.hasAnalysis = Bool(TRUE)) => out = "completed"
              /\ (raw = "completed" /\ lib.hasAnalysis # Bool(TRUE)) => out = "processing"
              /\ raw = "active" => out = "in_progress"
              /\ raw \in {"processing", "demo", "archived"} => out = raw
              /\ raw \notin {"analyzed", "completed", "active", "processing", "demo",
                             "archived"} => out = "in_progress"

\* A completed session without the hasAnalysis argument was normalised.
C26_Witness ==
  /\ lib.fn = "normalizeSessionStatus"
  /\ lib.dbStatus = "completed"
  /\ lib.hasAnalysis = Undefined
  /\ lib.returned = <<"processing">>

AbsentScore(score) == score \in {Undefined, Null, NaN}

\* C27: for every score s, converting s from scale 10 to scale 100 and the
\* result back from 100 to 10 gives s again; normalizeScore returns the
\* score itself when the two scales are equal, and 0 when the score is absent.
C27_ScoreRoundTrip ==
  lib.fn = "normalizeScore" =>
    /\ (Len(lib.returned) >= 1 /\ AbsentScore(lib.score)) => lib.returned[1] = PlusZero
    /\ (Len(lib.returned) >= 1 /\ ~AbsentScore(lib.score) /\ lib.fromScale = lib.toScale) =>
          lib.returned[1] = lib.score
    /\ (Len(lib.returned) = 2 /\ ~AbsentScore(lib.score)
          /\ lib.fromScale = 10 /\ lib.toScale = 100) =>
          lib.returned[2] = lib.score

\* The two other laws of C27 without the round trip.
C27_IdentityAndAbsent ==
  lib.fn = "normalizeScore" =>
    /\ (Len(lib.returned) >= 1 /\ AbsentScore(lib.score)) => lib.returned[1] = PlusZero
    /\ (Len(lib.returned) >= 1 /\ ~AbsentScore(lib.score) /\ lib.fromScale = lib.toScale) =>
          lib.returned[1] = lib.score

UserNames == { <<"u","s","e","r">>, <<"y","o","u">>, <<"s","p","e","a","k","e","r","_","1">> }

\* C28: talkTimeRatio(T) is the number of messages whose speaker contains
\* user, you or speaker_1 in any letter case, divided by the number of
\* messages; it lies in [0,1], and it is 0 for the empty transcript.
C28_TalkTimeRatioIsUserShare ==
  (lib.fn = "calculateTalkTimeRatio" /\ lib.returned # <<>>) =>
    LET T     == lib.transcript
        out   == lib.returned[1]
        users == Cardinality({ i \in 1..Len(T) :
                   \E w \in UserNames : Includes(toLowerCase(T[i].speaker), w) })
    IN  /\ T = <<>> => out = Ratio(0, 1)
        /\ out.num * Len(T) = users * out.den
        /\ out.den > 0 /\ 0 <= out.num /\ out.num <= out.den

\* Two of three messages are the user's, under names in other letter cases.
C28_Witness ==
  /\ lib.fn = "calculateTalkTimeRatio"
  /\ Len(lib.transcript) = 3
  /\ lib.transcript[1].speaker = <<"Y","O","U">>
  /\ lib.transcript[2].speaker = <<"a","g","e","n","t">>
  /\ lib.transcript[3].speaker = <<"S","p","e","a","k","e","r","_","1">>
  /\ lib.returned = <<Ratio(2, 3)>>

\* C29: the filler count never goes down when messages are added after a
\* transcript: fillerWordsCount(T1 + T2) >= fillerWordsCount(T1).
C29_FillerCountMonotone ==
  (lib.fn = "countFillerWords" /\ Len(lib.returned) = 2) =>
    lib.returned[2] >= lib.returned[1]

\* A transcript that ends in a filler word was extended by a message that
\* completes a filler phrase with the words before it.
C29_Witness ==
  /\ lib.fn = "countFillerWords"
  /\ lib.transcript = << [speaker |-> <<"u","s","e","r">>, message |-> <<"U","m">>],
                         [speaker |-> <<"u","s","e","r">>, message |-> <<"y","o","u">>] >>
  /\ lib.more = << [speaker |-> <<"u","s","e","r">>,
                    message |-> <<"k","n","o","w"," ","b","a","d">>] >>
  /\ lib.returned = <<1, 2>>

\* C30: sentimentScore(T) is 0.5 when T has no match from either polarity
\* list (the empty transcript included); otherwise it is positiveCount /
\* (positiveCount + negativeCount); it lies in [0,1].
C30_SentimentIsPositiveShare ==
  (lib.fn = "calculateSentimentScore" /\ lib.returned # <<>>) =>
    LET text     == toLowerCase(extractTranscriptText(lib.transcript))
        positive == SumSeq([k \in 1..Len(positiveWords) |-> MatchCount(text, positiveWords[k])])
        negative == SumSeq([k \in 1..Len(negativeWords) |-> MatchCount(text, negativeWords[k])])
        out      == lib.returned[1]
    IN  /\ lib.transcript = <<>> => out = Ratio(1, 2)
        /\ positive + negative = 0 => out = Ratio(1, 2)
        /\ positive + negative > 0 => out.num * (positive + negative) = positive * out.den
        /\ out.den > 0 /\ 0 <= out.num /\ out.num <= out.den

\* One negative word and no positive one: the score is 0.
C30_Witness ==
  /\ lib.fn = "calculateSentimentScore"
  /\ lib.transcript = << [speaker |-> <<"u","s","e","r">>,
                          message |-> <<"k","n","o","w"," ","b","a","d">>] >>
  /\ lib.returned = <<Ratio(0, 1)>>

\* C31: speakingPaceWpm(T, d) is 0 when the duration d is zero, negative or
\* absent; otherwise it is the number of words of the transcript text divided
\* by d / 60 and rounded to the nearest integer: a natural number at most one
\* half away from 60 * words / d.
C31_SpeakingPaceIsRoundedRate ==
  (lib.fn = "calculateSpeakingPace" /\ lib.returned # <<>>) =>
    LET d     == lib.durationSeconds
        words == WordCount(extractTranscriptText(lib.transcript))
        pace  == lib.returned[1]
    IN  /\ pace \in Nat
        /\ (d \in {Undefined, Null} \/ d.val <= 0) => pace = 0
        /\ (d \notin {Undefined, Null} /\ d.val > 0) =>
              /\ 2 * (pace * d.val - 60 * words) <= d.val
              /\ 2 * (60 * words - pace * d.val) <= d.val

\* 31 words in 248 seconds: the exact rate is 7.5 words a minute, and the
\* quotient of the doubles, just below it, rounds to 7.
C31_Witness ==
  /\ lib.fn = "calculateSpeakingPace"
  /\ lib.transcript = <<createMockTranscript[3], createMockTranscript[4]>>
  /\ lib.durationSeconds = Num(248)
  /\ lib.returned = <<7>>

\* The pace returned is the one that the two divisions in doubles give,
\* also where the exact rate does not end in one half.
C31_PaceIsPaceInDoubles ==
  (lib.fn = "calculateSpeakingPace" /\ lib.returned # <<>>
     /\ lib.durationSeconds \notin {Undefined, Null} /\ lib.durationSeconds.val > 0) =>
    lib.returned[1] = PaceInDoubles(WordCount(extractTranscriptText(lib.transcript)),
                                    lib.durationSeconds.val)

-----------------------------------------------------------------------------
(* get-session for a conversation of the voice platform.                    *)

\* A finished get-session request for a conversation id.
ConversationServed(r) ==
  /\ req[r].kind = "get"
  /\ req[r].pc = "done"
  /\ isElevenLabsSession(req[r].greq.sessionId)

C33_WitnessNotFound ==
  \E r \in Slots :
    /\ ConversationServed(r)
    /\ "elevenlabsData" \in DOMAIN req[r]
    /\ ~req[r].elevenlabsData.ok
    /\ req[r].resp.status = 404

-----------------------------------------------------------------------------
(* end-session for a session that is not active any more.                   *)

\* The step in which end-session request r leaves the lookup of its session.
StatusCheckStep(r) ==
  /\ req[r].kind = "end"
  /\ req[r].pc = "e_session"
  /\ req'[r].pc # "e_session"

\* The session that request r names is stored for its profile and is not
\* active.
StoredNotActive(r) ==
  LET row == SelectSession(sessions, req[r].ereq.session_id) IN
  /\ row # Null
  /\ row.profile_id = req[r].profile
  /\ row.status # "active"

\* C34: end-session for a stored session whose status is not active is
\* answered with the error 400 in the step that reads the session, writes
\* nothing (sessions, subscriptions, usage and audit log stay as they are),
\* triggers no analysis, and does nothing after its answer.
C34_NotActiveRejectedWithoutEffect ==
  [][\A r \in Slots :
       /\ (StatusCheckStep(r) /\ StoredNotActive(r)) =>
            /\ req'[r].pc = "done"
            /\ req'[r].resp = Json(400, [error |-> "Session is not active"])
            /\ store' = store
            /\ ~req'[r].ewrote /\ ~req'[r].acalled /\ ~req'[r].analysisTriggered
       /\ (req[r].kind = "end" /\ req[r].pc = "done") => req'[r] = req[r]]_vars

\* The session was ended by one request and a later request for it was
\* rejected: it is charged once.
C34_Witness ==
  \E r, q \in Slots :
    /\ req[q].kind = "end" /\ req[q].pc = "done" /\ req[q].resp.status = 200
    /\ req[r].kind = "end" /\ req[r].pc = "done"
    /\ q \in req[r].afterDone
    /\ req[r].ereq.session_id = req[q].ereq.session_id
    /\ req[r].resp = Json(400, [error |-> "Session is not active"])
    /\ ~req[r].ewrote
    /\ BagCardinality(usage) = 1

-----------------------------------------------------------------------------
(* The results view: src/frontend/app/session/[id]/results/page.tsx.        *)

\* The view of session S1 of a signed-in user: loadSessionData is due (at
\* mount, and again when a timer of l.188-190 or l.213-215 fires).
ResultsView == [page |-> "results", view |-> "due"]

\* Lines 138-149: loadSessionData fetches the session; r is the slot in
\* which the server handles the fetch.
LoadSessionData(r) ==
  /\ browser.view = "due"
  /\ req[r].kind = "none"
  /\ Set(r, [kind |-> "get", pc |-> "g_begin",
             greq |-> [sessionId |-> S1, authHeader |-> "Bearer tokA"],
             afterDone |-> { q \in Slots : req[q].pc = "done" }])
  /\ browser' = [browser EXCEPT !.view = "loading"]
  /\ UNCHANGED <<lib, env, store, failuresLeft>>

\* Lines 151-219: the response.  A session whose normalized status is
\* 'active' or 'processing' is fetched again after 3 seconds, a server error
\* after 5 seconds; anything else ends the loading.
SessionLoaded(r) ==
  /\ browser.view = "loading"
  /\ req[r].kind = "get"
  /\ req[r].pc = "done"
  /\ LET response == req[r].resp
         result   == response.body
         status   == normalizeSessionStatus(result.session.status,
                                            Bool(result.session.detailedAnalysis # Null))
     IN  browser' =
           [browser EXCEPT !.view =
              IF response.status = 200
                THEN IF result.isDemo THEN "error"
                     ELSE IF status \in {"active", "processing"} THEN "due" ELSE "shown"
              ELSE IF response.status >= 500 THEN "due"
              ELSE "error"]
  /\ req' = [req EXCEPT ![r] = IdleFrame]
  /\ UNCHANGED <<lib, env, store, failuresLeft>>

\* One end-session or analyze request of the owner, and the results view of
\* session S1 open in the browser; store and network do not fail.
NextResults ==
  \/ ReceiveEndSession(1, CoreEndSessionRequests)
  \/ ReceiveAnalyze(1, CoreAnalyzeRequests)
  \/ Step(1)
  \/ LoadSessionData(2)
  \/ GetBegin(2)
  \/ GetGetUser(2)
  \/ GetGetProfile(2)
  \/ GetGetSession(2)
  \/ GetSelectAnalysis(2)
  \/ GetSelectMetrics(2)
  \/ SessionLoaded(2)

InitResults ==
  /\ ServerStart([SERVER_SECRET : {SecretValue, ""}, OPENAI_API_KEY : BOOLEAN], 0)
  /\ browser = ResultsView
  /\ lib = NoCall

\* The request of slot r has arrived and is not answered yet.
Running(r) == req[r].kind # "none" /\ req[r].pc # "done"

\* Every request that has arrived runs to its end (each await of a handler
\* returns: while a request runs, it has a step to take), and every timer of
\* the view fires.
SpecResults ==
  /\ InitResults
  /\ [][NextResults]_vars
  /\ [](Running(1) => <>~Running(1))
  /\ WF_vars(GetStep(2))
  /\ WF_vars(LoadSessionData(2))
  /\ WF_vars(SessionLoaded(2))

\* C35: a session that end-session has left with processing_status
\* 'analyzing' is analyzed in the end (status 'analyzed', processing_status
\* 'completed'), and the results view stops fetching in the end.
C35_AnalyzingLeadsToAnalyzed ==
  /\ \A s \in {S1, S2} :
       (sessions[s].processing_status = "analyzing")
         ~> (sessions[s].status = "analyzed" /\ sessions[s].processing_status = "completed")
  /\ <>[](browser.view \in {"shown", "error"})

\* Every fetch of the view is answered.
C35_EveryFetchAnswered == (browser.view = "loading") ~> (browser.view # "loading")

\* end-session was answered on a server without a key of the provider: the
\* session is left 'analyzing', and no request runs any more.
C35_LeftAnalyzing ==
  /\ ~env.OPENAI_API_KEY
  /\ env.SERVER_SECRET = SecretValue
  /\ req[1].kind = "end"
  /\ req[1].pc = "done"
  /\ req[1].resp.status = 200
  /\ req[1].analysisTriggered
  /\ sessions[S1].status = "completed"
  /\ sessions[S1].processing_status = "analyzing"
  /\ analysis_results = EmptyBag

-----------------------------------------------------------------------------
(* The three records of an analysis.                                        *)

\* No run of the analyze handler is under way.
NoAnalyzeRunning == \A r \in Slots : req[r].apc \in {"none", "a_done"}

\* C36: when no analyze request is running, a stored session has status
\* 'analyzed' and processing_status 'completed' exactly when it has a row in
\* analysis_results, and then it has a row in session_analytics as well,
\* also when store calls of the persist step have failed.
C36_ThreeRecordsAgree ==
  NoAnalyzeRunning =>
    \A s \in DOMAIN sessions :
      /\ (sessions[s].status = "analyzed" /\ sessions[s].processing_status = "completed")
           <=> RowCount(analysis_results, s) > 0
      /\ RowCount(analysis_results, s) > 0 => RowCount(session_analytics, s) > 0

-----------------------------------------------------------------------------
(* Two analyze requests for one session.                                    *)

\* Analyze request r was answered with the analysis of the provider.
AnalysisDelivered(r) ==
  /\ req[r].kind = "analyze"
  /\ req[r].pc = "done"
  /\ req[r].resp.status = 200
  /\ ~req[r].resp.body.isDemo

\* The session row, the analysis_results row and the session_analytics row
\* are the ones that request r writes.
StoredBy(r) ==
  LET call   == req[r].areq
      fields == AnalyzedFields(call, req[r].analysis)
  IN  /\ \A f \in DOMAIN fields : sessions[call.sessionId.val][f] = fields[f]
      /\ BagIn(AnalysisRow(call, req[r].analysis), analysis_results)
      /\ BagIn(AnalyticsRow(call, req[r].analysis, req[r].metrics, req[r].sessionData),
               session_analytics)

\* C37: when two overlapping analyze requests for one session have both
\* been answered with an analysis of the provider, the session row, the
\* analysis_results row and the session_analytics row are all those of one
\* of the two requests.
C37_StoredResultFromOneRequest ==
  \A r, q \in Slots :
    ( /\ r # q
      /\ AnalysisDelivered(r) /\ AnalysisDelivered(q)
      /\ req[r].areq.sessionId = req[q].areq.sessionId
      /\ q \notin req[r].afterDone /\ r \notin req[q].afterDone )
    => (StoredBy(r) \/ StoredBy(q))

-----------------------------------------------------------------------------
(* The demo flag of analyze.                                                *)

\* The analysis of the response of request r is what the provider returned
\* to it: a parsed text with the mandatory fields, under the session's id.
ProviderResult(r) ==
  /\ req[r].acalled
  /\ \E out \in ProviderOutcomes :
       /\ out.kind = "text"
       /\ parseAnalysisResponse(out) # Null
       /\ req[r].aresp.body.analysis = finalAnalysis(req[r].areq, out.doc)
  /\ requiredFields \subseteq DOMAIN req[r].aresp.body.analysis

\* C38: a success response of analyze has isDemo false exactly when its
\* analysis is the provider's parsed result with all mandatory fields; a
\* response with a mock analysis has isDemo true, the request answered so
\* has written nothing, and no stored analysis is a mock analysis: every
\* analysis_results row holds a parsed result of the provider.
C38_DemoFlagTellsMockFromReal ==
  /\ \A r \in Slots :
       (Answered(r) /\ req[r].aresp.status = 200) =>
         LET body == req[r].aresp.body IN
         /\ (body.isDemo = FALSE) <=> ProviderResult(r)
         /\ body.analysis \in generateMockAnalysis =>
              /\ body.isDemo = TRUE
              /\ ~req[r].awrote
  /\ \A row \in DOMAIN analysis_results :
       /\ row.results \notin generateMockAnalysis
       /\ \E out \in ProviderOutcomes :
            /\ out.kind = "text"
            /\ parseAnalysisResponse(out) # Null
            /\ row.results = Merge(out.doc, [ id       |-> Str(row.session_id),
                                              duration |-> row.results.duration ])

\* The provider's answer with the mandatory fields only was delivered with
\* isDemo false and stored.
C38_Witness ==
  \E r \in Slots :
    /\ Answered(r)
    /\ req[r].aresp.status = 200
    /\ req[r].aresp.body.isDemo = FALSE
    /\ req[r].analysis = ProviderDocMinimal
    /\ ProviderResult(r)
    /\ BagIn(AnalysisRow(req[r].areq, ProviderDocMinimal), analysis_results)

\* The provider's text lacked a mandatory field, and a mock analysis was
\* delivered with isDemo true; nothing is stored.
C38_WitnessMock ==
  \E r \in Slots :
    /\ Answered(r)
    /\ req[r].raised = "parse"
    /\ req[r].aresp.body.isDemo = TRUE
    /\ req[r].aresp.body.analysis \in generateMockAnalysis
    /\ StoreUntouched

====
